---- MODULE Spec2Model ----
(***************************************************************************)
(* Model of the identity-resolution and export pipeline of                 *)
(* chat_to_map_desktop (src-tauri/src/{contacts,export,lib}.rs).           *)
(*                                                                         *)
(* Rust Strings are sequences of one-character strings, so that the        *)
(* character-level functions (phone_keys, normalize_email, ...) compute    *)
(* what the code computes: "Me" is <<"M", "e">> and "" is <<>>.            *)
(* Option<T> is a sequence of length at most one: None is <<>> and         *)
(* Some(v) is <<v>>.  A HashMap is a function on its key set; iterating a  *)
(* HashMap takes its keys in an arbitrary order (\E over Perms).           *)
(***************************************************************************)
EXTENDS Integers, Sequences, FiniteSets, TLC

None == <<>>
Some(v) == <<v>>
IsSome(o) == o # <<>>
Unwrap(o) == o[1]

Range(s) == {s[i] : i \in DOMAIN s}
Contains(s, x) == \E i \in DOMAIN s : s[i] = x

\* every order in which the keys of a HashMap / HashSet can be iterated
Perms(S) ==
  {p \in [1..Cardinality(S) -> S] : \A i, j \in 1..Cardinality(S) : p[i] = p[j] => i = j}

EmptyMap == [k \in {} |-> None]
Get(m, k) == IF k \in DOMAIN m THEN Some(m[k]) ELSE None
Put(m, k, v) == [x \in DOMAIN m \cup {k} |-> IF x = k THEN v ELSE m[x]]

(***************************************************************************)
(* Text                                                                    *)
(***************************************************************************)
Digits == {"0", "1", "2", "3", "4", "5", "6", "7", "8", "9"}
Whitespace == {" ", "\t"}
DigitChar == <<"0", "1", "2", "3", "4", "5", "6", "7", "8", "9">>

IsAsciiDigit(ch) == ch \in Digits
IsWhitespace(ch) == ch \in Whitespace

\* str::contains(pattern)
ContainsStr(s, pat) ==
  \E i \in 1..(Len(s) - Len(pat) + 1) : SubSeq(s, i, i + Len(pat) - 1) = pat

\* str::starts_with(prefix)
StartsWith(s, p) == Len(s) >= Len(p) /\ SubSeq(s, 1, Len(p)) = p

\* str::trim_start_matches(ch): strips every leading ch
RECURSIVE TrimStartMatches(_, _)
TrimStartMatches(s, chars) ==
  IF s # <<>> /\ Head(s) \in chars THEN TrimStartMatches(Tail(s), chars) ELSE s

\* str::trim_end_matches(ch): strips every trailing ch
RECURSIVE TrimEndMatches(_, _)
TrimEndMatches(s, chars) ==
  IF s # <<>> /\ s[Len(s)] \in chars
  THEN TrimEndMatches(SubSeq(s, 1, Len(s) - 1), chars)
  ELSE s

\* str::trim()
Trim(s) == TrimEndMatches(TrimStartMatches(s, Whitespace), Whitespace)

\* char::to_lowercase over the letters the model uses
ToLowerChar(ch) ==
  CASE ch = "A" -> "a"
    [] ch = "B" -> "b"
    [] ch = "C" -> "c"
    [] ch = "E" -> "e"
    [] ch = "M" -> "m"
    [] ch = "X" -> "x"
    [] OTHER -> ch

ToLowercase(s) == [i \in DOMAIN s |-> ToLowerChar(s[i])]

\* str::split_whitespace(): the maximal runs of non-whitespace, in order
RECURSIVE SplitWhitespaceFrom(_, _)
SplitWhitespaceFrom(s, cur) ==
  IF s = <<>>
  THEN IF cur = <<>> THEN <<>> ELSE <<cur>>
  ELSE IF IsWhitespace(Head(s))
       THEN (IF cur = <<>> THEN <<>> ELSE <<cur>>) \o SplitWhitespaceFrom(Tail(s), <<>>)
       ELSE SplitWhitespaceFrom(Tail(s), Append(cur, Head(s)))

SplitWhitespace(s) == SplitWhitespaceFrom(s, <<>>)

\* format!("{}", n) for n >= 0
RECURSIVE FormatInt(_)
FormatInt(n) ==
  IF n < 10 THEN <<DigitChar[n + 1]>> ELSE Append(FormatInt(n \div 10), DigitChar[(n % 10) + 1])

\* format!("{:03}", n): zero-padded to at least three digits
Pad3(n) ==
  LET d == FormatInt(n)
  IN  IF Len(d) = 1 THEN <<"0", "0">> \o d ELSE IF Len(d) = 2 THEN <<"0">> \o d ELSE d

(***************************************************************************)
(* contacts.rs: Name                                                       *)
(***************************************************************************)
\* mutant: full always has the space between first and last
FromOptAlwaysSpace(first, last) ==
  IF first = None /\ last = None
  THEN None
  ELSE Some([first |-> IF IsSome(first) THEN Unwrap(first) ELSE <<>>,
             last |-> IF IsSome(last) THEN Unwrap(last) ELSE <<>>,
             full |-> (IF IsSome(first) THEN Unwrap(first) ELSE <<>>)
                      \o <<" ">>
                      \o (IF IsSome(last) THEN Unwrap(last) ELSE <<>>),
             details |-> <<>>,
             handle_ids |-> {}])

\* Name::from_opt(first, last): Option<Name>
FromOpt(first, last) ==
  IF first = None /\ last = None
  THEN None
  ELSE Some([first |-> IF IsSome(first) THEN Unwrap(first) ELSE <<>>,
             last |-> IF IsSome(last) THEN Unwrap(last) ELSE <<>>,
             full |-> (IF IsSome(first) THEN Unwrap(first) ELSE <<>>)
                      \o (IF IsSome(first) /\ IsSome(last) THEN <<" ">> ELSE <<>>)
                      \o (IF IsSome(last) THEN Unwrap(last) ELSE <<>>),
             details |-> <<>>,
             handle_ids |-> {}])

\* Name::score
Score(name) ==
  (IF name.first # <<>> THEN 1 ELSE 0) + (IF name.last # <<>> THEN 1 ELSE 0)

\* Name::get_display_name
GetDisplayName(name) == IF name.full = <<>> THEN name.details ELSE name.full

\* Name::from_details
FromDetails(details) ==
  [first |-> <<>>, last |-> <<>>, full |-> <<>>, details |-> details, handle_ids |-> {}]

(***************************************************************************)
(* contacts.rs: identifier normalizer                                      *)
(***************************************************************************)
looks_like_email(s) == Contains(s, "@")

\* mutant: one leading '<' and one trailing '>' are stripped, not every one
normalize_email_one(raw) ==
  LET s == Trim(raw)
      u == IF s # <<>> /\ Head(s) = "<" THEN Tail(s) ELSE s
      t == IF u # <<>> /\ u[Len(u)] = ">" THEN SubSeq(u, 1, Len(u) - 1) ELSE u
  IN  IF s = <<>> THEN None
      ELSE IF t = <<>> THEN None
      ELSE Some(ToLowercase(t))

\* normalize_email: Option<String>
normalize_email(raw) ==
  LET s == Trim(raw)
      t == TrimEndMatches(TrimStartMatches(s, {"<"}), {">"})
  IN  IF s = <<>> THEN None
      ELSE IF t = <<>> THEN None
      ELSE Some(ToLowercase(t))

\* filter_map(normalize_email) over a list of tokens
RECURSIVE FilterMapNormalize(_)
FilterMapNormalize(tokens) ==
  IF tokens = <<>> THEN <<>>
  ELSE normalize_email(Head(tokens)) \o FilterMapNormalize(Tail(tokens))

parse_email_list(raw) ==
  IF Contains(raw, " ")
  THEN FilterMapNormalize(SplitWhitespace(raw))
  ELSE normalize_email(raw)

to_phone_digits(raw) == SelectSeq(raw, IsAsciiDigit)

\* Vec::dedup: removes consecutive repeated elements
RECURSIVE Dedup(_)
Dedup(v) ==
  IF Len(v) < 2 THEN v
  ELSE IF v[1] = v[2] THEN Dedup(Tail(v))
  ELSE <<v[1]>> \o Dedup(Tail(v))

\* mutant: the last-10 variant is added for every 11-digit number
phone_keys_any11(raw) ==
  LET digits == to_phone_digits(raw)
      base == <<digits, <<"+">> \o digits>>
      last_10 == SubSeq(digits, Len(digits) - 9, Len(digits))
  IN  IF ContainsStr(raw, <<"u", "r", "n", ":">>) THEN <<>>
      ELSE IF digits = <<>> THEN <<>>
      ELSE IF Len(digits) = 11
           THEN Dedup(base \o <<last_10, <<"+">> \o last_10>>)
           ELSE Dedup(base)

phone_keys(raw) ==
  LET digits == to_phone_digits(raw)
      base == <<digits, <<"+">> \o digits>>
      last_10 == SubSeq(digits, Len(digits) - 9, Len(digits))
  IN  IF ContainsStr(raw, <<"u", "r", "n", ":">>) THEN <<>>
      ELSE IF digits = <<>> THEN <<>>
      ELSE IF Len(digits) = 11 /\ StartsWith(raw, <<"+", "1">>)
           THEN Dedup(base \o <<last_10, <<"+">> \o last_10>>)
           ELSE Dedup(base)

(***************************************************************************)
(* contacts.rs: ContactsIndex                                              *)
(***************************************************************************)
\* mutant: an equal-scoring candidate replaces the stored Name
upsert_best_ties(map, key, incoming) ==
  IF key \in DOMAIN map
  THEN IF Score(incoming) >= Score(map[key]) THEN Put(map, key, incoming) ELSE map
  ELSE Put(map, key, incoming)

\* upsert_best(map, key, incoming): the map afterwards
upsert_best(map, key, incoming) ==
  IF key \in DOMAIN map
  THEN IF Score(incoming) > Score(map[key]) THEN Put(map, key, incoming) ELSE map
  ELSE Put(map, key, incoming)

\* upsert_best of one Name under each key of a list, in order
RECURSIVE UpsertKeys(_, _, _)
UpsertKeys(map, keys, name) ==
  IF keys = <<>> THEN map
  ELSE UpsertKeys(upsert_best(map, Head(keys), name), Tail(keys), name)

\* the body of build_from_macos's row loop, for one row
\* [first, last, phone, email], each an Option<String>
MacosRow(index, row) ==
  LET name == FromOpt(row.first, row.last)
      withEmail == IF IsSome(row.email)
                   THEN UpsertKeys(index, parse_email_list(Unwrap(row.email)), Unwrap(name))
                   ELSE index
  IN  IF name = None THEN index
      ELSE IF IsSome(row.phone)
           THEN UpsertKeys(withEmail, phone_keys(Unwrap(row.phone)), Unwrap(name))
           ELSE withEmail

RECURSIVE MacosRows(_, _)
MacosRows(index, rows) ==
  IF rows = <<>> THEN index ELSE MacosRows(MacosRow(index, Head(rows)), Tail(rows))

\* build_from_macos of a source whose query succeeds
build_from_macos(rows) == MacosRows(EmptyMap, rows)

\* the merge of one source's index into idx; the keys of sub are distinct, so the
\* order in which the HashMap yields them does not change the result
RECURSIVE MergeSub(_, _, _)
MergeSub(idx, sub, keys) ==
  IF keys = {} THEN idx
  ELSE LET k == CHOOSE x \in keys : TRUE
       IN  MergeSub(upsert_best(idx, k, sub[k]), sub, keys \ {k})

\* ContactsIndex::build(None): sources are [opens, query_ok, rows]
RECURSIVE BuildDiscovery(_, _)
BuildDiscovery(idx, sources) ==
  IF sources = <<>> THEN idx
  ELSE LET src == Head(sources)
           sub == build_from_macos(src.rows)
       IN  IF src.opens /\ src.query_ok
           THEN BuildDiscovery(MergeSub(idx, sub, DOMAIN sub), Tail(sources))
           ELSE BuildDiscovery(idx, Tail(sources))

\* mutant: the first source that fails ends the build with its error
build_stops_at_failure(sources) ==
  IF \E i \in DOMAIN sources : ~(sources[i].opens /\ sources[i].query_ok)
  THEN [ok |-> FALSE, index |-> EmptyMap]
  ELSE [ok |-> TRUE, index |-> BuildDiscovery(EmptyMap, sources)]

\* ContactsIndex::build(None): Result<ContactsIndex>
build(sources) == [ok |-> TRUE, index |-> BuildDiscovery(EmptyMap, sources)]

\* mutant: only the first key of a token is tried
FirstHitFirstKey(index, keys) ==
  IF keys = <<>> THEN None ELSE Get(index, Head(keys))

\* the first index hit among a list of keys: Option<Name>
RECURSIVE FirstHit(_, _)
FirstHit(index, keys) ==
  IF keys = <<>> THEN None
  ELSE IF Head(keys) \in DOMAIN index THEN Some(index[Head(keys)])
  ELSE FirstHit(index, Tail(keys))

\* mutant: an email token that misses lets the scan go on
LookupTokensPastMiss(index, tokens) ==
  LET RECURSIVE Scan(_)
      Scan(ts) ==
        IF ts = <<>> THEN None
        ELSE LET id_part == Head(ts)
                 k == normalize_email(id_part)
                 hit == IF looks_like_email(id_part)
                        THEN (IF IsSome(k) THEN Get(index, Unwrap(k)) ELSE None)
                        ELSE FirstHit(index, phone_keys(id_part))
             IN  IF IsSome(hit) THEN hit ELSE Scan(Tail(ts))
  IN  Scan(tokens)

\* ContactsIndex::lookup over the tokens of id
RECURSIVE LookupTokens(_, _)
LookupTokens(index, tokens) ==
  IF tokens = <<>> THEN None
  ELSE LET id_part == Head(tokens)
           k == normalize_email(id_part)
           hit == FirstHit(index, phone_keys(id_part))
       IN  IF looks_like_email(id_part)
           THEN IF IsSome(k) THEN Get(index, Unwrap(k)) ELSE None
           ELSE IF IsSome(hit) THEN hit
           ELSE LookupTokens(index, Tail(tokens))

lookup(index, id) == LookupTokens(index, SplitWhitespace(id))

\* mutant: the entry is keyed by the raw handle id
ParticipantStepRawKey(index, result, handle_id, details, deduped) ==
  LET found == lookup(index, details)
      fresh == IF IsSome(found) THEN Unwrap(found) ELSE FromDetails(details)
  IN  IF handle_id \notin DOMAIN deduped THEN result
      ELSE Put(result, handle_id,
               [fresh EXCEPT !.details = details, !.handle_ids = @ \cup {handle_id}])

\* mutant: a later handle of the same canonical id resolves the entry again
ParticipantStepReresolve(index, result, handle_id, details, deduped) ==
  LET deduped_id == deduped[handle_id]
      found == lookup(index, details)
      fresh == IF IsSome(found) THEN Unwrap(found) ELSE FromDetails(details)
      before == IF deduped_id \in DOMAIN result THEN result[deduped_id].handle_ids ELSE {}
  IN  IF handle_id \notin DOMAIN deduped THEN result
      ELSE Put(result, deduped_id,
               [fresh EXCEPT !.details = details, !.handle_ids = before \cup {handle_id}])

\* mutant: details is stamped only when the lookup misses
ParticipantStepKeepDetails(index, result, handle_id, details, deduped) ==
  LET deduped_id == deduped[handle_id]
      found == lookup(index, details)
      fresh == IF IsSome(found) THEN Unwrap(found) ELSE FromDetails(details)
  IN  IF handle_id \notin DOMAIN deduped THEN result
      ELSE IF deduped_id \in DOMAIN result
           THEN [result EXCEPT ![deduped_id].handle_ids = @ \cup {handle_id}]
           ELSE Put(result, deduped_id, [fresh EXCEPT !.handle_ids = @ \cup {handle_id}])

\* the body of build_participants_map's loop for one (handle_id, details)
ParticipantStep(index, result, handle_id, details, deduped) ==
  LET deduped_id == deduped[handle_id]
      found == lookup(index, details)
      fresh == IF IsSome(found) THEN Unwrap(found) ELSE FromDetails(details)
  IN  IF handle_id \notin DOMAIN deduped THEN result
      ELSE IF deduped_id \in DOMAIN result
           THEN [result EXCEPT ![deduped_id].handle_ids = @ \cup {handle_id}]
           ELSE Put(result, deduped_id,
                    [fresh EXCEPT !.details = details, !.handle_ids = @ \cup {handle_id}])

\* build_participants_map, iterating the handles in the given order
RECURSIVE BuildParticipantsFrom(_, _, _, _, _)
BuildParticipantsFrom(index, result, order, participants, deduped) ==
  IF order = <<>> THEN result
  ELSE BuildParticipantsFrom(
         index,
         ParticipantStep(index, result, Head(order), participants[Head(order)], deduped),
         Tail(order), participants, deduped)

build_participants_map(index, participants, deduped, order) ==
  BuildParticipantsFrom(index, EmptyMap, order, participants, deduped)

(***************************************************************************)
(* lib.rs: chat display names                                              *)
(***************************************************************************)
\* mutant: the participant is resolved whatever the number of participants
resolve_chat_display_name_any(chat, chat_participants, pmap, deduped) ==
  LET participant_ids == Unwrap(chat_participants)
      handle_id == CHOOSE h \in participant_ids : \A o \in participant_ids : h <= o
      deduped_id == deduped[handle_id]
  IN  IF IsSome(chat.display_name) /\ Unwrap(chat.display_name) # <<>>
      THEN Unwrap(chat.display_name)
      ELSE IF /\ IsSome(chat_participants)
              /\ Cardinality(participant_ids) >= 1
              /\ handle_id \in DOMAIN deduped
              /\ deduped_id \in DOMAIN pmap
              /\ GetDisplayName(pmap[deduped_id]) # <<>>
           THEN GetDisplayName(pmap[deduped_id])
           ELSE chat.chat_identifier

\* resolve_chat_display_name(chat, chat_participants, participants_map, deduped_handles);
\* chat_participants is an Option<BTreeSet<i32>>
resolve_chat_display_name(chat, chat_participants, pmap, deduped) ==
  LET participant_ids == Unwrap(chat_participants)
      handle_id == CHOOSE h \in participant_ids : \A o \in participant_ids : h <= o
      deduped_id == deduped[handle_id]
  IN  IF IsSome(chat.display_name) /\ Unwrap(chat.display_name) # <<>>
      THEN Unwrap(chat.display_name)
      ELSE IF /\ IsSome(chat_participants)
              /\ Cardinality(participant_ids) = 1
              /\ handle_id \in DOMAIN deduped
              /\ deduped_id \in DOMAIN pmap
              /\ GetDisplayName(pmap[deduped_id]) # <<>>
           THEN GetDisplayName(pmap[deduped_id])
           ELSE chat.chat_identifier

(***************************************************************************)
(* export.rs: helpers                                                      *)
(***************************************************************************)
S_Me == <<"M", "e">>
S_Unknown == <<"U", "n", "k", "n", "o", "w", "n">>
S_ChatPrefix == <<"C", "h", "a", "t", " ">>
S_FilePrefix == <<"c", "h", "a", "t", "_">>
S_FileSuffix == <<".", "j", "s", "o", "n">>
S_Manifest == <<"m", "a", "n", "i", "f", "e", "s", "t">> \o S_FileSuffix

\* mutant: the participants map is consulted with the raw handle id
get_sender_name_raw(message, hs, deduped, pmap) ==
  LET handle_id == Unwrap(message.handle_id)
  IN  IF message.is_from_me THEN S_Me
      ELSE IF message.handle_id = None THEN S_Unknown
      ELSE IF /\ handle_id \in DOMAIN pmap
              /\ GetDisplayName(pmap[handle_id]) # <<>>
           THEN GetDisplayName(pmap[handle_id])
      ELSE IF handle_id \in DOMAIN hs THEN hs[handle_id]
      ELSE S_Unknown

\* get_sender_name(message, handles, deduped_handles, participants_map)
get_sender_name(message, hs, deduped, pmap) ==
  LET handle_id == Unwrap(message.handle_id)
      deduped_id == deduped[handle_id]
  IN  IF message.is_from_me THEN S_Me
      ELSE IF message.handle_id = None THEN S_Unknown
      ELSE IF /\ handle_id \in DOMAIN deduped
              /\ deduped_id \in DOMAIN pmap
              /\ GetDisplayName(pmap[deduped_id]) # <<>>
           THEN GetDisplayName(pmap[deduped_id])
      ELSE IF handle_id \in DOMAIN hs THEN hs[handle_id]
      ELSE S_Unknown

APPLE_EPOCH_OFFSET == 978307200
TIMESTAMP_FACTOR == 1000000000

\* format_timestamp: the Unix second that the ISO 8601 string renders
format_timestamp(imessage_timestamp) ==
  (imessage_timestamp \div TIMESTAMP_FACTOR) + APPLE_EPOCH_OFFSET

U8Mod == 256
ProgressEvery == 100
ExportingBase == 10
ExportingSpan == 70
ExportingCap == 80

Max(a, b) == IF a >= b THEN a ELSE b
Min(a, b) == IF a <= b THEN a ELSE b

\* (processed as u64 * 70 / total_messages.max(1)) as u8
ProgressQuotient(n, total) == ((n * ExportingSpan) \div Max(total, 1)) % U8Mod

\* 10 + (...) as u8, before the u8 addition is range-checked
ProgressSum(n, total) == ExportingBase + ProgressQuotient(n, total)

\* the arm of the stream callback that exports one selected message
ExportedMessage(message, hs, deduped, pmap) ==
  [timestamp |-> format_timestamp(message.date),
   sender |-> get_sender_name(message, hs, deduped, pmap),
   is_from_me |-> message.is_from_me,
   text |-> Unwrap(message.text)]

\* mutant: the message is put at the front of the chat's list
PushMessageFront(by_chat, chat_id, exported) ==
  Put(by_chat, chat_id,
      <<exported>> \o (IF chat_id \in DOMAIN by_chat THEN by_chat[chat_id] ELSE <<>>))

\* messages_by_chat.entry(chat_id).or_default().push(exported)
PushMessage(by_chat, chat_id, exported) ==
  Put(by_chat, chat_id,
      Append(IF chat_id \in DOMAIN by_chat THEN by_chat[chat_id] ELSE <<>>, exported))

\* the ExportedChat built for one entry of messages_by_chat; chat_id is the key it was
\* built from, kept beside the struct's meta and messages to state properties with
BuildExportedChat(chat_table, chat_id, messages) ==
  LET chat == Get(chat_table, chat_id)
  IN  [meta |->
         [name |-> IF IsSome(chat) /\ IsSome(Unwrap(chat).display_name)
                   THEN Unwrap(Unwrap(chat).display_name)
                   ELSE S_ChatPrefix \o FormatInt(chat_id),
          identifier |-> IF IsSome(chat) THEN Unwrap(chat).chat_identifier ELSE <<>>,
          service |-> IF IsSome(chat) /\ IsSome(Unwrap(chat).service_name)
                      THEN Unwrap(Unwrap(chat).service_name)
                      ELSE S_Unknown,
          message_count |-> Len(messages)],
       messages |-> messages,
       chat_id |-> chat_id]

\* Vec::sort_by(|a, b| b.messages.len().cmp(&a.messages.len())): a stable sort,
\* computed by inserting each element behind those that do not sort after it
RECURSIVE InsertByLen(_, _)
InsertByLen(sorted, c) ==
  IF sorted = <<>> THEN <<c>>
  ELSE IF Len(Head(sorted).messages) >= Len(c.messages)
       THEN <<Head(sorted)>> \o InsertByLen(Tail(sorted), c)
       ELSE <<c>> \o sorted

RECURSIVE SortFrom(_, _)
SortFrom(sorted, rest) ==
  IF rest = <<>> THEN sorted ELSE SortFrom(InsertByLen(sorted, Head(rest)), Tail(rest))

\* mutant: the sort is left out
SortOmitted(v) == v

SortByMessageCountDesc(v) == SortFrom(<<>>, v)

\* format!("chat_{:03}.json", i)
ChatFileName(i) == S_FilePrefix \o Pad3(i) \o S_FileSuffix

(***************************************************************************)
(* The message store and the address books read by one run                 *)
(***************************************************************************)
MaxStoreLen == 3
BulkRep == 100

Str_a == <<"a">>
Str_b == <<"b">>
PhoneNZ == <<"+", "6", "4">>
EmailBob == <<"b", "@", "m">>
GroupId == <<"c", "h", "a", "t", "9">>
Family == <<"F", "a", "m">>
IMessage == <<"i", "M", "e", "s", "s", "a", "g", "e">>

\* a row of the message table as Message::stream yields it; `generated` is what
\* generate_text decodes from the row's payload (None: the decode fails)
Msg(chat_id, handle_id, is_from_me, text, generated, date) ==
  [ok |-> TRUE, chat_id |-> chat_id, handle_id |-> handle_id, is_from_me |-> is_from_me,
   text |-> text, generated |-> generated, date |-> date]

\* a row that Message::stream could not read: the callback gets Err
ErrRow == [ok |-> FALSE]

MsgAlphabet ==
  { Msg(Some(1), Some(1), FALSE, None, Some(Str_a), 1),
    Msg(Some(1), None, TRUE, Some(Str_b), None, 2),
    Msg(Some(1), Some(1), FALSE, None, Some(<<>>), 3),
    Msg(Some(2), Some(2), FALSE, Some(Str_a), Some(Str_a), 4),
    Msg(Some(2), Some(2), FALSE, None, None, 5),
    Msg(Some(3), Some(9), FALSE, None, Some(Str_b), 6),
    Msg(None, Some(1), FALSE, Some(Str_a), None, 7),
    ErrRow }

BulkAlphabet ==
  { Msg(Some(1), Some(1), FALSE, None, Some(Str_a), 1),
    Msg(Some(1), Some(1), FALSE, None, Some(<<>>), 3),
    Msg(Some(2), Some(2), FALSE, Some(Str_a), Some(Str_a), 4) }

SeqsUpTo(S, n) == UNION {[1..k -> S] : k \in 0..n}

\* a pattern of rows, repeated
Repeat(pattern, times) ==
  [i \in 1..(Len(pattern) * times) |-> pattern[((i - 1) % Len(pattern)) + 1]]

Stores ==
  SeqsUpTo(MsgAlphabet, MaxStoreLen)
    \cup {Repeat(p, BulkRep) : p \in SeqsUpTo(BulkAlphabet, 2) \ {<<>>}}

Selections == {<<>>, <<1>>, <<2>>, <<1, 2>>, <<2, 1, 1>>, <<3, 1>>}

\* the totals the count query is let to return besides the exact count: the store
\* is live and the count and the stream are two separate queries
StaleTotals == {0, 28, 50}

HomeHandles == (1 :> PhoneNZ) @@ (2 :> EmailBob)
HomeDeduped == (1 :> 0) @@ (2 :> 1)
HomeChats ==
  (1 :> [display_name |-> None, chat_identifier |-> PhoneNZ, service_name |-> Some(IMessage)])
    @@ (2 :> [display_name |-> Some(Family), chat_identifier |-> GroupId,
              service_name |-> None])
HomeChatHandles == (1 :> {1}) @@ (2 :> {1, 2})
HomeSources ==
  << [opens |-> FALSE, query_ok |-> TRUE, rows |-> <<>>],
     [opens |-> TRUE, query_ok |-> TRUE,
      rows |-> << [first |-> Some(<<"A">>), last |-> Some(<<"B">>),
                   phone |-> Some(PhoneNZ), email |-> None] >>] >>

(***************************************************************************)
(* State                                                                   *)
(***************************************************************************)
VARIABLES
  db,                \* the message store and the address books
  chat_ids,          \* the selection handed to export_chats
  pc,                \* where the run is
  events,            \* the ExportProgress values handed to the callback, in order
  handles,           \* Handle::cache
  deduped_handles,   \* Handle::dedupe
  participants_map,
  chats,             \* Chat::cache
  total_messages,    \* Message::get_count
  pos,               \* the rows the stream has delivered
  processed,
  messages_by_chat,
  exported_chats,
  zip,               \* the entries written to export.zip, in order
  written,           \* the chat files written
  result,            \* the value returned: None while running
  listing,           \* the value list_chats returned: None before
  call,              \* a call of one function of contacts.rs: its name and arguments
  ret,               \* the value that call returned: None before it returns
  index,             \* a HashMap<String, Name> that upsert_best is applied to
  upserts,           \* the (key, incoming) pairs upsert_best was called with, in order
  up_pc,             \* where export_and_upload is: "idle" when it is not running
  window,            \* the events export_and_upload and its upload callback emit
  started,           \* the steps export_and_upload has started, in order
  succeeded,         \* the steps that returned Ok, in order
  presign_response,  \* what get_presigned_url returned: None before
  upload_result      \* the value export_and_upload returned: None while running

vars == <<db, chat_ids, pc, events, handles, deduped_handles, participants_map, chats,
          total_messages, pos, processed, messages_by_chat, exported_chats, zip, written,
          result, listing, call, ret, index, upserts, up_pc, window, started, succeeded,
          presign_response, upload_result>>

contacts_vars == <<call, ret, index, upserts>>

\* no function of contacts.rs is being called on its own
NoCall ==
  /\ call = [fn |-> "none"]
  /\ ret = None
  /\ index = EmptyMap
  /\ upserts = <<>>

upload_vars == <<up_pc, window, started, succeeded, presign_response, upload_result>>

\* export_and_upload has sent nothing to the window and started no step
NoUploadYet ==
  /\ window = <<>>
  /\ started = <<>>
  /\ succeeded = <<>>
  /\ presign_response = None
  /\ upload_result = None

\* export_chats and list_chats are called directly, not by export_and_upload
NoUpload == up_pc = "idle" /\ NoUploadYet

locals == <<handles, deduped_handles, participants_map, chats, total_messages, pos,
            processed, messages_by_chat, exported_chats, zip, written>>

Emit(stage, percent) == Append(events, [stage |-> stage, percent |-> percent])

LocalsInit ==
  /\ handles = EmptyMap
  /\ deduped_handles = EmptyMap
  /\ participants_map = EmptyMap
  /\ chats = EmptyMap
  /\ total_messages = 0
  /\ pos = 0
  /\ processed = 0
  /\ messages_by_chat = EmptyMap
  /\ exported_chats = <<>>
  /\ zip = <<>>
  /\ written = 0

\* the locals of export_chats are dropped when it returns Err or unwinds; dropping
\* the TempDir removes the directory and the zip file in it
DropLocals ==
  /\ handles' = EmptyMap
  /\ deduped_handles' = EmptyMap
  /\ participants_map' = EmptyMap
  /\ chats' = EmptyMap
  /\ total_messages' = 0
  /\ pos' = 0
  /\ processed' = 0
  /\ messages_by_chat' = EmptyMap
  /\ exported_chats' = <<>>
  /\ zip' = <<>>
  /\ written' = 0

Init ==
  /\ db \in {[handles |-> HomeHandles, deduped |-> HomeDeduped, chats |-> HomeChats,
              chat_handles |-> HomeChatHandles, sources |-> HomeSources, messages |-> m] :
             m \in Stores}
  /\ chat_ids \in Selections
  /\ pc = "start"
  /\ events = <<>>
  /\ LocalsInit
  /\ result = None
  /\ listing = None
  /\ NoCall
  /\ NoUpload

(***************************************************************************)
(* export.rs: export_chats, one action per step between two fallible calls *)
(***************************************************************************)
\* emit Initializing; the run goes on to get_connection
Begin ==
  /\ pc = "start"
  /\ events' = Emit("Initializing", 0)
  /\ pc' = "connect"
  /\ UNCHANGED <<contacts_vars, upload_vars, db, chat_ids, locals, result, listing>>

\* get_connection succeeds
Connect ==
  /\ pc = "connect"
  /\ pc' = "handles"
  /\ UNCHANGED <<contacts_vars, upload_vars, db, chat_ids, events, locals, result, listing>>

\* ContactsIndex::build(None).unwrap_or_default(), Handle::cache, Handle::dedupe,
\* build_participants_map (which iterates the handle HashMap)
LoadHandles ==
  /\ pc = "handles"
  /\ handles' = db.handles
  /\ deduped_handles' = db.deduped
  /\ \E order \in Perms(DOMAIN db.handles) :
       participants_map' =
         build_participants_map(BuildDiscovery(EmptyMap, db.sources), db.handles,
                                db.deduped, order)
  /\ pc' = "chats"
  /\ UNCHANGED <<contacts_vars, upload_vars, db, chat_ids, events, chats, total_messages, pos, processed,
                 messages_by_chat, exported_chats, zip, written, result, listing>>

\* Chat::cache succeeds; emit Preparing
LoadChats ==
  /\ pc = "chats"
  /\ chats' = db.chats
  /\ events' = Emit("Preparing", 5)
  /\ pc' = "count"
  /\ UNCHANGED <<contacts_vars, upload_vars, db, chat_ids, handles, deduped_handles, participants_map, total_messages,
                 pos, processed, messages_by_chat, exported_chats, zip, written, result,
                 listing>>

\* the rows of the store whose chat is in the BTreeSet of selected chat ids
MatchingCount(messages, selection) ==
  Cardinality({i \in DOMAIN messages :
                 /\ messages[i].ok
                 /\ IsSome(messages[i].chat_id)
                 /\ Unwrap(messages[i].chat_id) \in Range(selection)})

\* Message::get_count succeeds; emit Exporting(10)
CountMessages ==
  /\ pc = "count"
  /\ total_messages' \in {MatchingCount(db.messages, chat_ids)} \cup StaleTotals
  /\ events' = Emit("Exporting", ExportingBase)
  /\ pc' = "stream"
  /\ UNCHANGED <<contacts_vars, upload_vars, db, chat_ids, handles, deduped_handles, participants_map, chats, pos,
                 processed, messages_by_chat, exported_chats, zip, written, result, listing>>

\* mutant: a failed decode clears the text of the message
generate_text_clears(message) ==
  IF IsSome(message.generated) THEN [message EXCEPT !.text = message.generated]
  ELSE [message EXCEPT !.text = None]

\* message.generate_text(&db): the message afterwards (the Result is discarded)
generate_text(message) ==
  IF IsSome(message.generated) THEN [message EXCEPT !.text = message.generated] ELSE message

\* mutant: every message that has a chat id is taken
IsSelectedAnyChat(row, selection) == row.ok /\ IsSome(row.chat_id)

\* if let Some(chat_id) = message.chat_id { if chat_ids.contains(&chat_id) {
IsSelected(row, selection) ==
  row.ok /\ IsSome(row.chat_id) /\ Contains(selection, Unwrap(row.chat_id))

\* mutant: the is_empty check is left out
IsExportableAnyText(message) == IsSome(message.text)

\* if let Some(text) = message.text.as_ref() { if !text.is_empty() {
IsExportable(message) == IsSome(message.text) /\ Unwrap(message.text) # <<>>

\* mutant: the chat's entry is created before the text check
RecordMessageEntryFirst(by_chat, chat_id, message, hs, deduped, pmap) ==
  IF IsExportable(message)
  THEN PushMessage(by_chat, chat_id, ExportedMessage(message, hs, deduped, pmap))
  ELSE Put(by_chat, chat_id, IF chat_id \in DOMAIN by_chat THEN by_chat[chat_id] ELSE <<>>)

\* the text check around messages_by_chat.entry(chat_id).or_default().push(exported)
RecordMessage(by_chat, chat_id, message, hs, deduped, pmap) ==
  IF IsExportable(message)
  THEN PushMessage(by_chat, chat_id, ExportedMessage(message, hs, deduped, pmap))
  ELSE by_chat

\* if processed % 100 == 0
ProgressDue(n) == n % ProgressEvery = 0

\* percent.min(80)
CapPercent(percent) == Min(percent, ExportingCap)

\* the callback of Message::stream, for the next row of the store.  The u8 addition
\* 10 + (..) as u8 overflows when the sum exceeds 255: a build with overflow checks
\* panics there, a build without them wraps
StreamMessage ==
  /\ pc = "stream"
  /\ pos < Len(db.messages)
  /\ pos' = pos + 1
  /\ LET row == db.messages[pos + 1]
         message == generate_text(row)
         chat_id == Unwrap(row.chat_id)
         n == processed + 1
         sum == ProgressSum(n, total_messages)
     IN  IF ~IsSelected(row, chat_ids)
         THEN UNCHANGED <<pc, events, processed, messages_by_chat>>
         ELSE /\ processed' = n
              /\ messages_by_chat' =
                   RecordMessage(messages_by_chat, chat_id, message, handles,
                                 deduped_handles, participants_map)
              /\ IF ~ProgressDue(n)
                 THEN UNCHANGED <<pc, events>>
                 ELSE \/ /\ sum < U8Mod
                         /\ events' = Emit("Exporting", CapPercent(sum))
                         /\ pc' = pc
                      \/ /\ sum >= U8Mod
                         /\ events' = Emit("Exporting", CapPercent(sum % U8Mod))
                         /\ pc' = pc
                      \/ /\ sum >= U8Mod
                         /\ events' = events
                         /\ pc' = "panic"
  /\ UNCHANGED <<contacts_vars, upload_vars, db, chat_ids, handles, deduped_handles, participants_map, chats,
                 total_messages, exported_chats, zip, written, result, listing>>

\* mutant: the Packaging event is not emitted
StreamEndSilent ==
  /\ pc = "stream"
  /\ pos = Len(db.messages)
  /\ pc' = "tempdir"
  /\ UNCHANGED <<contacts_vars, upload_vars, db, chat_ids, events, locals, result, listing>>

\* Message::stream returns Ok; emit Packaging
StreamEnd ==
  /\ pc = "stream"
  /\ pos = Len(db.messages)
  /\ events' = Emit("Packaging", 85)
  /\ pc' = "tempdir"
  /\ UNCHANGED <<contacts_vars, upload_vars, db, chat_ids, locals, result, listing>>

\* the Vec built by iterating messages_by_chat in the given order
BuildExportedChats(chat_table, by_chat, order) ==
  [i \in DOMAIN order |-> BuildExportedChat(chat_table, order[i], by_chat[order[i]])]

\* TempDir::new succeeds; build the exported chats (iterating the HashMap) and sort
CreateTempDir ==
  /\ pc = "tempdir"
  /\ \E order \in Perms(DOMAIN messages_by_chat) :
       exported_chats' =
         SortByMessageCountDesc(BuildExportedChats(chats, messages_by_chat, order))
  /\ pc' = "zipfile"
  /\ UNCHANGED <<contacts_vars, upload_vars, db, chat_ids, events, handles, deduped_handles, participants_map, chats,
                 total_messages, pos, processed, messages_by_chat, zip, written, result,
                 listing>>

\* File::create succeeds
CreateZip ==
  /\ pc = "zipfile"
  /\ pc' = "manifest"
  /\ UNCHANGED <<contacts_vars, upload_vars, db, chat_ids, events, locals, result, listing>>

RECURSIVE SumMessageCounts(_)
SumMessageCounts(exported) ==
  IF exported = <<>> THEN 0
  ELSE Head(exported).meta.message_count + SumMessageCounts(Tail(exported))

\* mutant: total_messages counts the exported messages
ManifestCountsExported(exported, n) ==
  [version |-> <<"1", ".", "0">>, source |-> <<"i", "m", "e", "s", "s", "a", "g", "e">>,
   chat_count |-> Len(exported), total_messages |-> SumMessageCounts(exported)]

\* the manifest, without its export_date (the clock)
Manifest(exported, n) ==
  [version |-> <<"1", ".", "0">>, source |-> <<"i", "m", "e", "s", "s", "a", "g", "e">>,
   chat_count |-> Len(exported), total_messages |-> n]

\* start_file("manifest.json") and write_all succeed
WriteManifest ==
  /\ pc = "manifest"
  /\ zip' = Append(zip, [name |-> S_Manifest, body |-> Manifest(exported_chats, processed)])
  /\ pc' = "chatfiles"
  /\ UNCHANGED <<contacts_vars, upload_vars, db, chat_ids, events, handles, deduped_handles, participants_map, chats,
                 total_messages, pos, processed, messages_by_chat, exported_chats, written,
                 result, listing>>

\* the serialized ExportedChat
ChatFileBody(chat) == [meta |-> chat.meta, messages |-> chat.messages]

\* one round of the loop over exported_chats: start_file and write_all succeed
WriteChat ==
  /\ pc = "chatfiles"
  /\ written < Len(exported_chats)
  /\ zip' = Append(zip, [name |-> ChatFileName(written),
                         body |-> ChatFileBody(exported_chats[written + 1])])
  /\ written' = written + 1
  /\ UNCHANGED <<contacts_vars, upload_vars, db, chat_ids, pc, events, handles, deduped_handles, participants_map,
                 chats, total_messages, pos, processed, messages_by_chat, exported_chats,
                 result, listing>>

\* zip.finish succeeds; emit Complete; return Ok(ExportResult)
FinishZip ==
  /\ pc = "chatfiles"
  /\ written = Len(exported_chats)
  /\ events' = Emit("Complete", 100)
  /\ result' = Some([ok |-> TRUE, total_messages |-> processed,
                     chat_count |-> Len(exported_chats)])
  /\ pc' = "ok"
  /\ UNCHANGED <<contacts_vars, upload_vars, db, chat_ids, locals, listing>>

FalliblePcs ==
  {"connect", "handles", "chats", "count", "stream", "tempdir", "zipfile", "manifest",
   "chatfiles"}

\* the message of the Err that each fallible call maps to
ErrorAt(at, all_written) ==
  CASE at = "connect" -> "Failed to connect to database"
    [] at = "handles" -> "Failed to load handles"
    [] at = "chats" -> "Failed to load chats"
    [] at = "count" -> "Failed to count messages"
    [] at = "stream" -> "Failed to stream messages"
    [] at = "tempdir" -> "Failed to create temp directory"
    [] at = "zipfile" -> "Failed to create zip"
    [] at = "manifest" -> "Failed to write manifest"
    [] at = "chatfiles" ->
         IF all_written THEN "Failed to finalize zip" ELSE "Failed to write chat"

\* mutant: the failure path reports a final progress event
FailEmitsComplete ==
  /\ pc \in FalliblePcs
  /\ result' = Some([ok |-> FALSE, error |-> ErrorAt(pc, written = Len(exported_chats))])
  /\ pc' = "err"
  /\ events' = Emit("Complete", 100)
  /\ DropLocals
  /\ UNCHANGED <<contacts_vars, upload_vars, db, chat_ids, listing>>

\* the fallible call the run is at fails: map_err(..)? returns Err
Fail ==
  /\ pc \in FalliblePcs
  /\ result' = Some([ok |-> FALSE, error |-> ErrorAt(pc, written = Len(exported_chats))])
  /\ pc' = "err"
  /\ DropLocals
  /\ UNCHANGED <<contacts_vars, upload_vars, db, chat_ids, events, listing>>

(***************************************************************************)
(* lib.rs: list_chats                                                      *)
(***************************************************************************)
\* get_chat_stats: the rows of one chat in the message-to-chat join
ChatRows(messages, id) ==
  {i \in DOMAIN messages : messages[i].ok /\ messages[i].chat_id = Some(id)}

MaxDate(messages, rows) ==
  messages[CHOOSE i \in rows : \A j \in rows : messages[i].date >= messages[j].date].date

\* the (ChatInfo, last_message_date) pair built for one chat
BuildChatInfo(d, pmap, id) ==
  LET chat == d.chats[id]
      participants == Get(d.chat_handles, id)
      rows == ChatRows(d.messages, id)
  IN  [info |->
         [id |-> id,
          display_name |-> resolve_chat_display_name(chat, participants, pmap, d.deduped),
          chat_identifier |-> chat.chat_identifier,
          service |-> IF IsSome(chat.service_name) THEN Unwrap(chat.service_name)
                      ELSE S_Unknown,
          participant_count |-> IF IsSome(participants)
                                THEN Cardinality(Unwrap(participants)) ELSE 0,
          message_count |-> Cardinality(rows)],
       last_message_date |-> IF rows = {} THEN 0 ELSE MaxDate(d.messages, rows)]

\* result.sort_by(|a, b| b.1.cmp(&a.1)): a stable sort
RECURSIVE InsertByDate(_, _)
InsertByDate(sorted, c) ==
  IF sorted = <<>> THEN <<c>>
  ELSE IF Head(sorted).last_message_date >= c.last_message_date
       THEN <<Head(sorted)>> \o InsertByDate(Tail(sorted), c)
       ELSE <<c>> \o sorted

RECURSIVE SortByDateFrom(_, _)
SortByDateFrom(sorted, rest) ==
  IF rest = <<>> THEN sorted
  ELSE SortByDateFrom(InsertByDate(sorted, Head(rest)), Tail(rest))

\* list_chats with every query succeeding: the chat and handle HashMaps are each
\* iterated in some order
ListChats ==
  /\ pc = "start"
  /\ \E horder \in Perms(DOMAIN db.handles), corder \in Perms(DOMAIN db.chats) :
       LET pmap == build_participants_map(BuildDiscovery(EmptyMap, db.sources),
                                          db.handles, db.deduped, horder)
           pairs == [i \in DOMAIN corder |-> BuildChatInfo(db, pmap, corder[i])]
           sorted == SortByDateFrom(<<>>, pairs)
       IN  /\ participants_map' = pmap
           /\ listing' =
                Some([ok |-> TRUE, chats |-> [i \in DOMAIN sorted |-> sorted[i].info]])
  /\ handles' = db.handles
  /\ deduped_handles' = db.deduped
  /\ chats' = db.chats
  /\ pc' = "listed"
  /\ UNCHANGED <<contacts_vars, upload_vars, db, chat_ids, events, total_messages, pos, processed, messages_by_chat,
                 exported_chats, zip, written, result>>

ListErrors ==
  {"Failed to connect to database", "Failed to load chats", "Failed to load handles",
   "Failed to load participants", "Failed to get chat stats"}

\* one of the fallible calls of list_chats fails
ListChatsFail ==
  /\ pc = "start"
  /\ \E e \in ListErrors : listing' = Some([ok |-> FALSE, error |-> e])
  /\ pc' = "listed"
  /\ UNCHANGED <<contacts_vars, upload_vars, db, chat_ids, events, locals, result>>

Next ==
  \/ ListChats
  \/ ListChatsFail
  \/ Begin
  \/ Connect
  \/ LoadHandles
  \/ LoadChats
  \/ CountMessages
  \/ StreamMessage
  \/ StreamEnd
  \/ CreateTempDir
  \/ CreateZip
  \/ WriteManifest
  \/ WriteChat
  \/ FinishZip
  \/ Fail

Spec == Init /\ [][Next]_vars

(***************************************************************************)
(* The name resolvers over varied handle tables, canonical-id maps and     *)
(* chats: the same operations, started from stores of one message          *)
(***************************************************************************)
PartialMaps(D, R) == UNION {[S -> R] : S \in SUBSET D}

ResolveHandleTables == PartialMaps({1, 2}, {<<>>, PhoneNZ, EmailBob})
ResolveChats ==
  {(1 :> [display_name |-> n, chat_identifier |-> GroupId, service_name |-> Some(IMessage)])
     @@ (2 :> HomeChats[2]) : n \in {None, Some(<<>>), Some(Family)}}
ResolveChatHandles == PartialMaps({1}, {{}, {1}, {2}, {1, 2}})
ResolveStores ==
  {<<Msg(Some(1), h, me, Some(Str_a), None, 1)>> :
     h \in {None, Some(1), Some(2), Some(9)}, me \in BOOLEAN}

InitResolve ==
  /\ \E hs \in ResolveHandleTables :
       \E dd \in PartialMaps(DOMAIN hs, {1, 2}) :
         db \in {[handles |-> hs, deduped |-> dd, chats |-> cs, chat_handles |-> ch,
                  sources |-> HomeSources, messages |-> m] :
                 cs \in ResolveChats, ch \in ResolveChatHandles, m \in ResolveStores}
  /\ chat_ids = <<1>>
  /\ pc = "start"
  /\ events = <<>>
  /\ LocalsInit
  /\ result = None
  /\ listing = None
  /\ NoCall
  /\ NoUpload

SpecResolve == InitResolve /\ [][Next]_vars

(***************************************************************************)
(* contacts.rs called function by function: the arguments each call can    *)
(* be given, and one action per function                                   *)
(***************************************************************************)
MaxRawLen == 3
MaxTokens == 2
MaxUpserts == 4
MaxSources == 3

\* the characters raw identifiers are made of, and every short string over them
RawAlphabet == {"<", ">", " ", "\t", "A", "@", "1", "+"}

\* a string of decimal digits
Chars(ns) == [i \in DOMAIN ns |-> DigitChar[ns[i] + 1]]

UsDigits == Chars(<<1, 5, 5, 5, 1, 2, 3, 4, 5, 6, 7>>)
PhoneUS == <<"+">> \o UsDigits
PhoneUSLast10 == SubSeq(UsDigits, 2, 11)
PhoneUSOther == <<"+">> \o Chars(<<1, 9, 9, 9, 9, 9, 9, 9, 9, 9, 9>>)

\* the phone numbers of the address-book fixtures, in the forms handles carry them
PhoneRaws ==
  { PhoneUS, UsDigits, PhoneUSLast10, PhoneUSOther,
    <<"+", "1", " ", "(", "5", "5", "5", ")", " ", "1", "2", "3", "-", "4", "5", "6", "7">>,
    <<"1", "+">> \o PhoneUSLast10,
    <<"+">> \o Chars(<<6, 4, 2, 1, 5, 5, 5, 1, 2, 3>>),
    <<"+">> \o Chars(<<6, 4, 2, 1, 5, 5, 5, 1, 2, 3, 4>>),
    <<"u", "r", "n", ":">> \o Chars(<<1, 2>>),
    <<"+", "1", "u", "r", "n", ":">> \o PhoneUSLast10 }

EmailRaws ==
  { <<" ", " ", "<", "B", "@", "M", ">", " ", " ">>,
    <<"<", "<", "A", "@", "M", ">", ">">>,
    <<"<", " ", "A", "@", "M", " ", ">">>,
    <<"A", "@", "M", " ", "<", "B", "@", "M", ">">>,
    <<"<", "\t", "B", "@", "M", ">">> }

RawStrings == SeqsUpTo(RawAlphabet, MaxRawLen) \cup PhoneRaws \cup EmailRaws

\* four address-book records and the keys each is registered under
BookEntries ==
  << [keys |-> phone_keys(PhoneUS), name |-> Unwrap(FromOpt(Some(<<"A">>), Some(<<"B">>)))],
     [keys |-> <<EmailBob>>, name |-> Unwrap(FromOpt(Some(<<"B">>), None))],
     [keys |-> <<<<"6", "4">>>>, name |-> Unwrap(FromOpt(None, Some(<<"C">>)))],
     [keys |-> <<PhoneNZ>>, name |-> Unwrap(FromOpt(Some(<<"E">>), Some(<<"X">>)))] >>

\* the index holding the records chosen by S
RECURSIVE IndexOf(_)
IndexOf(S) ==
  IF S = {} THEN EmptyMap
  ELSE LET i == CHOOSE x \in S : \A y \in S : x >= y
       IN  UpsertKeys(IndexOf(S \ {i}), BookEntries[i].keys, BookEntries[i].name)

LookupIndexes == {IndexOf(S) : S \in SUBSET (DOMAIN BookEntries)}

\* the tokens identifiers are made of
IdTokens ==
  { <<"B", "@", "M">>, <<"A", "@", "M">>, PhoneNZ, Chars(<<9, 9>>), Str_a,
    PhoneUS, UsDigits, PhoneUSLast10, PhoneUSOther }

\* the tokens separated by single spaces
RECURSIVE Join(_)
Join(tokens) ==
  IF tokens = <<>> THEN <<>>
  ELSE IF Len(tokens) = 1 THEN Head(tokens)
  ELSE Head(tokens) \o <<" ">> \o Join(Tail(tokens))

\* the Names upsert_best is offered, of score 0, 1, 1, 2 and 2
UpsertCandidates ==
  { Unwrap(FromOpt(Some(<<>>), None)),
    Unwrap(FromOpt(Some(<<"A">>), None)),
    Unwrap(FromOpt(None, Some(<<"B">>))),
    Unwrap(FromOpt(Some(<<"A">>), Some(<<"B">>))),
    Unwrap(FromOpt(Some(<<"B">>), Some(<<"A">>))) }

UpsertKeySet == {PhoneNZ, EmailBob}

\* address-book sources: one that does not open, one whose query fails, three
\* that can be read; all name the same phone number
BookSources ==
  LET Row(first, last, email) ==
        [first |-> first, last |-> last, phone |-> Some(PhoneNZ), email |-> email]
  IN  { [opens |-> FALSE, query_ok |-> TRUE,
         rows |-> <<Row(Some(<<"X">>), Some(<<"X">>), Some(EmailBob))>>],
        [opens |-> TRUE, query_ok |-> FALSE,
         rows |-> <<Row(Some(<<"M">>), Some(<<"M">>), Some(<<"M", "@", "M">>))>>],
        [opens |-> TRUE, query_ok |-> TRUE, rows |-> <<Row(Some(<<"A">>), None, None)>>],
        [opens |-> TRUE, query_ok |-> TRUE,
         rows |-> <<Row(Some(<<"A">>), Some(<<"B">>), None)>>],
        [opens |-> TRUE, query_ok |-> TRUE,
         rows |-> <<Row(None, Some(<<"C">>), Some(<<"C", "@", "M">>))>>] }

\* the rows of a contact table: first and last absent, empty or given, with or
\* without a phone number and an email address
ContactRows ==
  {[first |-> f, last |-> l, phone |-> p, email |-> e] :
     f \in {None, Some(<<>>), Some(<<"A">>)}, l \in {None, Some(<<>>), Some(<<"B">>)},
     p \in {None, Some(PhoneNZ)}, e \in {None, Some(<<"<", "B", "@", "M", ">">>)}}

ParticipantHandleTables == PartialMaps({1, 2, 3}, {PhoneNZ, EmailBob, Str_a})
ParticipantIndexes == {IndexOf({2, 3}), IndexOf({4})}

\* the calls: the function and its arguments
Calls ==
  {[fn |-> f, raw |-> r] :
     f \in {"phone_keys", "normalize_email", "parse_email_list"}, r \in RawStrings}
  \cup {[fn |-> "lookup", index |-> ix, tokens |-> ts, id |-> Join(ts)] :
          ix \in LookupIndexes, ts \in SeqsUpTo(IdTokens, MaxTokens)}
  \cup {[fn |-> "build", sources |-> ss] : ss \in SeqsUpTo(BookSources, MaxSources)}
  \cup UNION {UNION {{[fn |-> "build_participants_map", index |-> ix, participants |-> hs,
                       deduped |-> dd, order |-> o] :
                      ix \in ParticipantIndexes, o \in Perms(DOMAIN hs)} :
                     dd \in PartialMaps(DOMAIN hs, {1, 2})} :
              hs \in ParticipantHandleTables}
  \cup {[fn |-> "build_from_macos", rows |-> <<r>>] : r \in ContactRows}
  \cup {[fn |-> "upsert_best"]}

InitContacts ==
  /\ db = [handles |-> HomeHandles, deduped |-> HomeDeduped, chats |-> HomeChats,
           chat_handles |-> HomeChatHandles, sources |-> HomeSources, messages |-> <<>>]
  /\ chat_ids = <<>>
  /\ pc = "start"
  /\ events = <<>>
  /\ LocalsInit
  /\ result = None
  /\ listing = None
  /\ NoUpload
  /\ call \in Calls
  /\ ret = None
  /\ index = EmptyMap
  /\ upserts = <<>>

\* each call returns once: ret is the returned value
CallPhoneKeys ==
  /\ call.fn = "phone_keys"
  /\ ret = None
  /\ ret' = Some(phone_keys(call.raw))
  /\ UNCHANGED <<upload_vars, db, chat_ids, pc, events, locals, result, listing, call, index, upserts>>

CallNormalizeEmail ==
  /\ call.fn = "normalize_email"
  /\ ret = None
  /\ ret' = Some(normalize_email(call.raw))
  /\ UNCHANGED <<upload_vars, db, chat_ids, pc, events, locals, result, listing, call, index, upserts>>

CallParseEmailList ==
  /\ call.fn = "parse_email_list"
  /\ ret = None
  /\ ret' = Some(parse_email_list(call.raw))
  /\ UNCHANGED <<upload_vars, db, chat_ids, pc, events, locals, result, listing, call, index, upserts>>

CallLookup ==
  /\ call.fn = "lookup"
  /\ ret = None
  /\ ret' = Some(lookup(call.index, call.id))
  /\ UNCHANGED <<upload_vars, db, chat_ids, pc, events, locals, result, listing, call, index, upserts>>

CallBuild ==
  /\ call.fn = "build"
  /\ ret = None
  /\ ret' = Some(build(call.sources))
  /\ UNCHANGED <<upload_vars, db, chat_ids, pc, events, locals, result, listing, call, index, upserts>>

CallBuildParticipantsMap ==
  /\ call.fn = "build_participants_map"
  /\ ret = None
  /\ ret' = Some(build_participants_map(call.index, call.participants, call.deduped,
                                     call.order))
  /\ UNCHANGED <<upload_vars, db, chat_ids, pc, events, locals, result, listing, call, index, upserts>>

CallBuildFromMacos ==
  /\ call.fn = "build_from_macos"
  /\ ret = None
  /\ ret' = Some(build_from_macos(call.rows))
  /\ UNCHANGED <<upload_vars, db, chat_ids, pc, events, locals, result, listing, call, index, upserts>>

\* one more upsert_best on the map
CallUpsertBest ==
  /\ call.fn = "upsert_best"
  /\ Len(upserts) < MaxUpserts
  /\ \E key \in UpsertKeySet, incoming \in UpsertCandidates :
       /\ index' = upsert_best(index, key, incoming)
       /\ upserts' = Append(upserts, [key |-> key, incoming |-> incoming])
  /\ UNCHANGED <<upload_vars, db, chat_ids, pc, events, locals, result, listing, call, ret>>

NextContacts ==
  \/ CallPhoneKeys
  \/ CallNormalizeEmail
  \/ CallParseEmailList
  \/ CallLookup
  \/ CallBuild
  \/ CallBuildFromMacos
  \/ CallBuildParticipantsMap
  \/ CallUpsertBest

SpecContacts == InitContacts /\ [][NextContacts]_vars

(***************************************************************************)
(* main.rs: export_and_upload, one action per step between two fallible    *)
(* calls; export_chats runs in between as the actions above                *)
(***************************************************************************)
UploadBase == 55
UploadSpan == 35

\* the job ids the server hands out
JobIds == {<<"j", "1">>, <<"j", "2">>}
\* the percents upload_file passes to its callback, in order
UploadPercents == <<0, 10, 100>>
\* the stores export_and_upload is run on
UploadStores == SeqsUpTo(MsgAlphabet, 1) \cup {Repeat(<<m>>, BulkRep) : m \in BulkAlphabet}

\* progress_callback: the event the window gets for one event of export_chats
ScaleExport(progress) == [stage |-> progress.stage, percent |-> progress.percent \div 2]

\* upload_callback: 55 + (percent * 35 / 100) in u8; a product past 255 panics in a
\* build with overflow checks and wraps in a build without
UploadCallbackOutcomes(percent) ==
  LET product == percent * UploadSpan IN
    IF product < U8Mod
      THEN {[panics |-> FALSE, scaled_percent |-> UploadBase + (product \div 100)]}
      ELSE {[panics |-> TRUE, scaled_percent |-> 0],
            [panics |-> FALSE, scaled_percent |-> UploadBase + ((product % U8Mod) \div 100)]}

\* the event upload_callback emits
UploadEvent(outcome) == [stage |-> "Uploading", percent |-> outcome.scaled_percent]

\* every event the window has received, in order: the first is the command's own,
\* then come those of export_chats, scaled, then the rest of the command's own
WindowEvents ==
  IF window = <<>> THEN <<>>
  ELSE <<window[1]>> \o [i \in DOMAIN events |-> ScaleExport(events[i])] \o Tail(window)

StartStep(step, job_id) == Append(started, [step |-> step, job_id |-> job_id])

InitUpload ==
  /\ db \in {[handles |-> HomeHandles, deduped |-> HomeDeduped, chats |-> HomeChats,
              chat_handles |-> HomeChatHandles, sources |-> HomeSources, messages |-> m] :
             m \in UploadStores}
  /\ chat_ids \in Selections
  /\ pc = "unspawned"
  /\ events = <<>>
  /\ LocalsInit
  /\ result = None
  /\ listing = None
  /\ NoCall
  /\ up_pc = "start"
  /\ NoUploadYet

\* emit Exporting(0) and spawn export_chats
UploadBegin ==
  /\ up_pc = "start"
  /\ window' = Append(window, [stage |-> "Exporting", percent |-> 0])
  /\ started' = StartStep("export", None)
  /\ pc' = "start"
  /\ up_pc' = "export"
  /\ UNCHANGED <<contacts_vars, db, chat_ids, events, locals, result, listing, succeeded,
                 presign_response, upload_result>>

\* the export task returned Ok: emit Uploading(50) and call get_presigned_url
ExportJoined ==
  /\ up_pc = "export"
  /\ pc = "ok"
  /\ succeeded' = Append(succeeded, "export")
  /\ window' = Append(window, [stage |-> "Uploading", percent |-> 50])
  /\ started' = StartStep("presign", None)
  /\ up_pc' = "presign"
  /\ UNCHANGED <<contacts_vars, db, chat_ids, pc, events, locals, result, listing,
                 presign_response, upload_result>>

\* the export task panicked (a JoinError) or returned Err: the command returns Err
ExportFailed ==
  /\ up_pc = "export"
  /\ pc \in {"err", "panic"}
  /\ upload_result' =
       Some([ok |-> FALSE,
             error |-> IF pc = "panic" THEN <<"Export task failed: ", "panicked">>
                       ELSE <<"Export failed: ", Unwrap(result).error>>])
  /\ up_pc' = "err"
  /\ UNCHANGED <<contacts_vars, db, chat_ids, pc, events, locals, result, listing, window,
                 started, succeeded, presign_response>>

\* get_presigned_url succeeds: emit Uploading(55); upload_file starts and reports 0
Presign ==
  /\ up_pc = "presign"
  /\ \E job \in JobIds :
       presign_response' = Some([upload_url |-> <<"put/", job>>, job_id |-> job])
  /\ succeeded' = Append(succeeded, "presign")
  /\ \E outcome \in UploadCallbackOutcomes(UploadPercents[1]) :
       IF outcome.panics
         THEN /\ window' = Append(window, [stage |-> "Uploading", percent |-> UploadBase])
              /\ up_pc' = "panic"
         ELSE /\ window' = window \o <<[stage |-> "Uploading", percent |-> UploadBase],
                                       UploadEvent(outcome)>>
              /\ up_pc' = "read"
  /\ started' = StartStep("upload", None)
  /\ UNCHANGED <<contacts_vars, db, chat_ids, pc, events, locals, result, listing,
                 upload_result>>

\* the zip file is opened and read; upload_file reports 10
ReadFile ==
  /\ up_pc = "read"
  /\ \E outcome \in UploadCallbackOutcomes(UploadPercents[2]) :
       IF outcome.panics
         THEN /\ window' = window
              /\ up_pc' = "panic"
         ELSE /\ window' = Append(window, UploadEvent(outcome))
              /\ up_pc' = "put"
  /\ UNCHANGED <<contacts_vars, db, chat_ids, pc, events, locals, result, listing, started,
                 succeeded, presign_response, upload_result>>

\* the PUT succeeds; upload_file reports 100 and returns Ok: emit Processing(90)
\* and call complete_upload with the job id of the presign response
PutFile ==
  /\ up_pc = "put"
  /\ \E outcome \in UploadCallbackOutcomes(UploadPercents[3]) :
       IF outcome.panics
         THEN /\ window' = window
              /\ up_pc' = "panic"
              /\ UNCHANGED <<started, succeeded>>
         ELSE /\ window' = window \o <<UploadEvent(outcome),
                                       [stage |-> "Processing", percent |-> 90]>>
              /\ succeeded' = Append(succeeded, "upload")
              /\ started' = StartStep("complete", Some(Unwrap(presign_response).job_id))
              /\ up_pc' = "complete"
  /\ UNCHANGED <<contacts_vars, db, chat_ids, pc, events, locals, result, listing,
                 presign_response, upload_result>>

\* complete_upload succeeds: emit Complete(100) and return Ok with the job id and
\* the results URL of the response (a browser that fails to open is only logged)
Complete ==
  /\ up_pc = "complete"
  /\ succeeded' = Append(succeeded, "complete")
  /\ window' = Append(window, [stage |-> "Complete", percent |-> 100])
  /\ \E job \in JobIds :
       upload_result' = Some([ok |-> TRUE, success |-> TRUE, job_id |-> Some(job),
                              results_url |-> Some(<<"/processing/", job>>), error |-> None])
  /\ up_pc' = "ok"
  /\ UNCHANGED <<contacts_vars, db, chat_ids, pc, events, locals, result, listing, started,
                 presign_response>>

\* mutant: a failed get_presigned_url is passed over and the upload starts
UploadStepFailGoesOn ==
  /\ up_pc = "presign"
  /\ started' = StartStep("upload", None)
  /\ up_pc' = "read"
  /\ UNCHANGED <<contacts_vars, db, chat_ids, pc, events, locals, result, listing, window,
                 succeeded, presign_response, upload_result>>

\* get_presigned_url, the read of the zip file, the PUT or complete_upload fails:
\* the command returns Err at once
UploadStepFail ==
  /\ up_pc \in {"presign", "read", "put", "complete"}
  /\ upload_result' =
       Some([ok |-> FALSE,
             error |-> <<CASE up_pc = "presign" -> "Failed to get upload URL: "
                           [] up_pc = "complete" -> "Failed to start processing: "
                           [] OTHER -> "Upload failed: ", "e">>])
  /\ up_pc' = "err"
  /\ UNCHANGED <<contacts_vars, db, chat_ids, pc, events, locals, result, listing, window,
                 started, succeeded, presign_response>>

NextUpload ==
  \/ UploadBegin
  \/ Begin
  \/ Connect
  \/ LoadHandles
  \/ LoadChats
  \/ CountMessages
  \/ StreamMessage
  \/ StreamEnd
  \/ CreateTempDir
  \/ CreateZip
  \/ WriteManifest
  \/ WriteChat
  \/ FinishZip
  \/ Fail
  \/ ExportJoined
  \/ ExportFailed
  \/ Presign
  \/ ReadFile
  \/ PutFile
  \/ Complete
  \/ UploadStepFail

SpecUpload == InitUpload /\ [][NextUpload]_vars

(***************************************************************************)
(* Properties                                                              *)
(***************************************************************************)
StageOrder == <<"Initializing", "Preparing", "Exporting", "Packaging", "Complete">>
StageRank(stage) == CHOOSE r \in DOMAIN StageOrder : StageOrder[r] = stage
StageCount(stage) == Cardinality({i \in DOMAIN events : events[i].stage = stage})
StagesKnown == \A i \in DOMAIN events : events[i].stage \in Range(StageOrder)
StagesNeverGoBack ==
  \A i, j \in DOMAIN events :
    i < j => StageRank(events[i].stage) <= StageRank(events[j].stage)

\* the text a streamed row carries once generate_text has run
TextAfter(row) == generate_text(row).text
\* the rows among the first n of the store whose chat id is in the selection
SelectedRows(n) ==
  {i \in 1..n : /\ db.messages[i].ok
                /\ db.messages[i].chat_id # None
                /\ db.messages[i].chat_id[1] \in Range(chat_ids)}
\* the selected rows whose text is absent or empty
DroppedRows(n) == {i \in SelectedRows(n) : TextAfter(db.messages[i]) \in {None, Some(<<>>)}}
\* the selected rows of one chat that carry text, in stream order
KeptRowsOf(c, n) ==
  {i \in SelectedRows(n) \ DroppedRows(n) : db.messages[i].chat_id = Some(c)}
ExportedChatIds == {exported_chats[i].chat_id : i \in DOMAIN exported_chats}

\* C1: a run that returns Ok has emitted Initializing, Preparing, Exporting (one or
\* more times), Packaging and Complete, in this order: every stage occurs, the four
\* other than Exporting once, and no stage is followed by an earlier one.
C1_StagesInOrder ==
  pc = "ok" =>
    /\ StagesKnown
    /\ StagesNeverGoBack
    /\ StageCount("Initializing") = 1
    /\ StageCount("Preparing") = 1
    /\ StageCount("Exporting") >= 1
    /\ StageCount("Packaging") = 1
    /\ StageCount("Complete") = 1

\* C1 witness: an Ok run over a non-empty store of which the selection matched no row
C1_Witness == pc = "ok" /\ Len(db.messages) > 0 /\ processed = 0

\* C2: every Exporting update of the streaming loop carries
\* min(80, 10 + floor(n * 70 / max(t, 1))), n being the processed count (the k-th
\* update of the loop is emitted at n = 100 k) and t the total of the count query.
C2_PercentIsFormula ==
  pc = "stream" =>
    \A i \in DOMAIN events :
      i > 3 =>
        events[i].percent =
          Min(80, 10 + (((i - 3) * 100 * 70) \div Max(total_messages, 1)))

\* C3: the percents of the emitted events never decrease, lie between 0 and 100,
\* and those of the Exporting stage between 10 and 80.
C3_PercentMonotone ==
  /\ \A i, j \in DOMAIN events : i < j => events[i].percent <= events[j].percent
  /\ \A i \in DOMAIN events :
       /\ events[i].percent \in 0..100
       /\ events[i].stage = "Exporting" => events[i].percent \in 10..80

C4_AtFailure ==
  pc = "err" =>
    /\ result # None /\ ~result[1].ok
    /\ StagesKnown
    /\ StageCount("Complete") = 0
    /\ StagesNeverGoBack
    /\ StageCount("Initializing") <= 1
    /\ StageCount("Preparing") <= 1
    /\ StageCount("Packaging") <= 1
    /\ \A i \in DOMAIN events :
         \A r \in 1..(StageRank(events[i].stage) - 1) : StageCount(StageOrder[r]) >= 1

\* C4: when a fatal step fails, export_chats returns Err, Complete was never
\* emitted, the stages emitted so far are a prefix of Initializing, Preparing,
\* Exporting, Packaging, and no event is emitted afterwards.
C4_FailureAborts == [](C4_AtFailure) /\ [][pc = "err" => events' = events]_vars

\* C4 witness: a chat file could not be written, after Packaging was emitted
C4_Witness ==
  /\ pc = "err"
  /\ result[1].error = "Failed to write chat"
  /\ StageCount("Packaging") = 1

\* C5: no exported message has an empty text, in the per-chat lists, in the
\* exported chats and in the chat files of the archive.
C5_NoEmptyText ==
  /\ \A c \in DOMAIN messages_by_chat :
       \A i \in DOMAIN messages_by_chat[c] : messages_by_chat[c][i].text # <<>>
  /\ \A k \in DOMAIN exported_chats :
       \A i \in DOMAIN exported_chats[k].messages : exported_chats[k].messages[i].text # <<>>
  /\ \A k \in DOMAIN zip :
       k > 1 => \A i \in DOMAIN zip[k].body.messages : zip[k].body.messages[i].text # <<>>

\* C5 witness: an Ok run that streamed selected rows with empty and with absent text
\* and exported a chat
C5_Witness ==
  /\ pc = "ok"
  /\ \E i \in SelectedRows(pos) : TextAfter(db.messages[i]) = None
  /\ \E i \in SelectedRows(pos) : TextAfter(db.messages[i]) = Some(<<>>)
  /\ Len(zip) > 1

C7_ExportedChats ==
  /\ pc \in {"zipfile", "manifest", "chatfiles", "ok"} =>
       /\ ExportedChatIds = {c \in Range(chat_ids) : KeptRowsOf(c, Len(db.messages)) # {}}
       /\ Cardinality(ExportedChatIds) = Len(exported_chats)
       /\ \A k \in DOMAIN exported_chats :
            /\ exported_chats[k].meta.message_count = Len(exported_chats[k].messages)
            /\ exported_chats[k].meta.message_count >= 1
  /\ pc = "ok" =>
       /\ Len(zip) = 1 + Len(exported_chats)
       /\ zip[1].body.chat_count = Len(exported_chats)
       /\ result[1].chat_count = Len(exported_chats)

\* C7 witness: an Ok run in which one selected chat had rows but none with text,
\* and another selected chat was exported
C7_Witness ==
  /\ pc = "ok"
  /\ \E c \in Range(chat_ids) :
       /\ \E i \in SelectedRows(pos) : db.messages[i].chat_id = Some(c)
       /\ KeptRowsOf(c, pos) = {}
  /\ Len(exported_chats) >= 1

\* C8: the archive is manifest.json followed by chat_000.json, chat_001.json, ...,
\* one per exported chat, no name twice, a chat at a lower index having at least as
\* many messages as one at a higher index.
C8_ArchiveLayout ==
  pc = "ok" =>
    /\ Len(zip) = 1 + Len(exported_chats)
    /\ zip[1].name = <<"m", "a", "n", "i", "f", "e", "s", "t", ".", "j", "s", "o", "n">>
    /\ \A k \in 1..Len(exported_chats) :
         /\ zip[k + 1].name =
              <<"c", "h", "a", "t", "_", "0", "0", DigitChar[k], ".", "j", "s", "o", "n">>
         /\ zip[k + 1].body.messages = exported_chats[k].messages
         /\ zip[k + 1].body.meta = exported_chats[k].meta
    /\ \A i, j \in DOMAIN zip : zip[i].name = zip[j].name => i = j
    /\ \A i, j \in 2..Len(zip) :
         i < j => Len(zip[i].body.messages) >= Len(zip[j].body.messages)

\* C8 witness: an archive of two chats with different message counts
C8_Witness ==
  /\ pc = "ok"
  /\ Len(zip) = 3
  /\ Len(zip[2].body.messages) > Len(zip[3].body.messages)

\* the k-th row, in stream order, of chat c among the selected rows carrying text
NthKeptRow(c, k) ==
  CHOOSE i \in KeptRowsOf(c, pos) : Cardinality({j \in KeptRowsOf(c, pos) : j <= i}) = k

\* the display value of a Name: full if non-empty, else details
DisplayValue(name) == IF name.full # <<>> THEN name.full ELSE name.details

\* the sender the fallback chain of the claim gives a row
ChainSender(row) ==
  IF row.is_from_me THEN <<"M", "e">>
  ELSE IF /\ row.handle_id # None
          /\ row.handle_id[1] \in DOMAIN db.deduped
          /\ db.deduped[row.handle_id[1]] \in DOMAIN participants_map
          /\ DisplayValue(participants_map[db.deduped[row.handle_id[1]]]) # <<>>
       THEN DisplayValue(participants_map[db.deduped[row.handle_id[1]]])
  ELSE IF row.handle_id # None /\ row.handle_id[1] \in DOMAIN db.handles
       THEN db.handles[row.handle_id[1]]
  ELSE <<"U", "n", "k", "n", "o", "w", "n">>

\* the participants map cut down to the canonical id of the row's handle
OnlyCanonical(row) ==
  [k \in {c \in DOMAIN participants_map :
            /\ row.handle_id # None
            /\ row.handle_id[1] \in DOMAIN db.deduped
            /\ c = db.deduped[row.handle_id[1]]} |-> participants_map[k]]

\* C9: the sender of every exported message is "Me" when is_from_me; else the
\* display value of the Name under the canonical id of its handle, when there is one
\* and it is non-empty; else the identifier of its handle in the handle list; else
\* "Unknown".  The entries of the participants map under other keys, the raw handle
\* id among them, do not change the sender.
C9_SenderChain ==
  pc \in {"stream", "tempdir", "zipfile", "manifest", "chatfiles", "ok"} =>
    /\ \A c \in DOMAIN messages_by_chat :
         \A k \in DOMAIN messages_by_chat[c] :
           k <= Cardinality(KeptRowsOf(c, pos)) =>
             messages_by_chat[c][k].sender = ChainSender(db.messages[NthKeptRow(c, k)])
    /\ \A i \in DOMAIN db.messages :
         db.messages[i].ok =>
           get_sender_name(db.messages[i], handles, deduped_handles, participants_map)
             = get_sender_name(db.messages[i], handles, deduped_handles,
                               OnlyCanonical(db.messages[i]))

\* C9 witness: an exported message of a handle whose canonical id differs from its
\* raw id, the raw id being the key of another participant with another name
C9_Witness ==
  /\ pc = "ok"
  /\ \E c \in DOMAIN messages_by_chat :
       \E k \in DOMAIN messages_by_chat[c] :
         LET row == db.messages[NthKeptRow(c, k)]
         IN  /\ ~row.is_from_me
             /\ row.handle_id # None
             /\ row.handle_id[1] \in DOMAIN db.deduped
             /\ db.deduped[row.handle_id[1]] # row.handle_id[1]
             /\ row.handle_id[1] \in DOMAIN participants_map
             /\ db.deduped[row.handle_id[1]] \in DOMAIN participants_map
             /\ DisplayValue(participants_map[row.handle_id[1]])
                  # DisplayValue(participants_map[db.deduped[row.handle_id[1]]])
             /\ messages_by_chat[c][k].sender
                  = DisplayValue(participants_map[db.deduped[row.handle_id[1]]])

\* the only participant of a chat with exactly one
OnlyParticipant(id) == CHOOSE h \in db.chat_handles[id] : TRUE

\* the chat has exactly one participant, whose canonical id has a Name with a
\* non-empty display value
ResolvesThroughParticipant(id) ==
  /\ id \in DOMAIN db.chat_handles
  /\ Cardinality(db.chat_handles[id]) = 1
  /\ OnlyParticipant(id) \in DOMAIN db.deduped
  /\ db.deduped[OnlyParticipant(id)] \in DOMAIN participants_map
  /\ DisplayValue(participants_map[db.deduped[OnlyParticipant(id)]]) # <<>>

HasStoredName(id) ==
  db.chats[id].display_name # None /\ db.chats[id].display_name[1] # <<>>

\* C10: the display name of a listed chat is its stored display name when that is
\* non-empty; else, only when it has exactly one participant whose canonical id has a
\* Name with a non-empty display value, that value; else its identifier.  Without a
\* stored name, a chat of no or of several participants gets its identifier.
C10_ChatDisplayName ==
  (listing # None /\ listing[1].ok) =>
    \A i \in DOMAIN listing[1].chats :
      LET info == listing[1].chats[i]
          id == info.id
      IN  /\ HasStoredName(id) => info.display_name = db.chats[id].display_name[1]
          /\ (~HasStoredName(id) /\ ResolvesThroughParticipant(id)) =>
               info.display_name
                 = DisplayValue(participants_map[db.deduped[OnlyParticipant(id)]])
          /\ (~HasStoredName(id) /\ ~ResolvesThroughParticipant(id)) =>
               info.display_name = db.chats[id].chat_identifier
          /\ (~HasStoredName(id)
                /\ (id \notin DOMAIN db.chat_handles
                      \/ Cardinality(db.chat_handles[id]) # 1)) =>
               info.display_name = db.chats[id].chat_identifier

\* C10 witness: a listed chat without a stored name whose only participant resolves
\* to a contact through a canonical id that differs from the handle id
C10_Witness ==
  /\ listing # None
  /\ listing[1].ok
  /\ \E i \in DOMAIN listing[1].chats :
       LET id == listing[1].chats[i].id
       IN  /\ ~HasStoredName(id)
           /\ ResolvesThroughParticipant(id)
           /\ db.deduped[OnlyParticipant(id)] # OnlyParticipant(id)
           /\ listing[1].chats[i].display_name = <<"A", " ", "B">>
           /\ listing[1].chats[i].display_name # db.chats[id].chat_identifier

(***************************************************************************)
(* contacts.rs: build_participants_map                                     *)
(***************************************************************************)
\* the call of fn has returned
Returned(fn) == call.fn = fn /\ ret # None

\* the handles of the call that have an entry in the canonical-id map
MappedHandles == {h \in DOMAIN call.participants : h \in DOMAIN call.deduped}

\* the handles of the call that map to canonical id c
HandlesOf(c) == {h \in MappedHandles : call.deduped[h] = c}

\* the handle mapping to c that the iteration reaches first
FirstIterated(c) ==
  call.order[CHOOSE i \in DOMAIN call.order :
               /\ call.order[i] \in HandlesOf(c)
               /\ \A j \in 1..(i - 1) : call.order[j] \notin HandlesOf(c)]

\* C11: the keys of the participants map are exactly the canonical ids of the
\* handles that have a canonical mapping; a handle without one appears in no
\* handle_ids set, and a raw handle id is a key only when it is also the
\* canonical id of a mapped handle
C11_KeyedByCanonicalId ==
  Returned("build_participants_map") =>
    LET m == Unwrap(ret)
    IN  /\ DOMAIN m = {call.deduped[h] : h \in MappedHandles}
        /\ \A h \in DOMAIN call.participants \ MappedHandles :
             \A c \in DOMAIN m : h \notin m[c].handle_ids
        /\ \A h \in DOMAIN call.participants :
             h \in DOMAIN m => \E g \in MappedHandles : call.deduped[g] = h

\* handle 3 maps to canonical id 2 and is found under 2, not under 3, while
\* handle 1 has no canonical mapping
C11_Witness ==
  /\ Returned("build_participants_map")
  /\ 3 \in MappedHandles
  /\ call.deduped[3] = 2
  /\ 1 \in DOMAIN call.participants \ MappedHandles
  /\ 2 \in DOMAIN Unwrap(ret)
  /\ 3 \in Unwrap(ret)[2].handle_ids
  /\ 3 \notin DOMAIN Unwrap(ret)

\* the name fields a handle's identifier resolves to
ResolvedFields(id) ==
  LET found == lookup(call.index, id)
  IN  IF IsSome(found)
      THEN <<Unwrap(found).first, Unwrap(found).last, Unwrap(found).full, id>>
      ELSE <<<<>>, <<>>, <<>>, id>>

\* C12: handle_ids of canonical id c is exactly the set of handles mapping to c,
\* and first, last, full and details are those resolved from the first handle
\* iterated for c; later handles only add their id
C12_FirstHandleResolves ==
  Returned("build_participants_map") =>
    LET m == Unwrap(ret)
    IN  \A c \in DOMAIN m :
          /\ HandlesOf(c) # {}
          /\ m[c].handle_ids = HandlesOf(c)
          /\ <<m[c].first, m[c].last, m[c].full, m[c].details>>
               = ResolvedFields(call.participants[FirstIterated(c)])

\* two handles share a canonical id and the later one would resolve differently
C12_Witness ==
  /\ Returned("build_participants_map")
  /\ \E c \in DOMAIN Unwrap(ret) :
       \E h \in HandlesOf(c) :
         /\ h # FirstIterated(c)
         /\ ResolvedFields(call.participants[h])
              # ResolvedFields(call.participants[FirstIterated(c)])
         /\ Unwrap(ret)[c].full # <<>>

\* C13: details is the raw identifier of the handle that created the entry,
\* on a contacts hit and on a miss; on a miss first, last and full are empty
\* and the display value is the raw identifier
C13_DetailsIsIdentifier ==
  Returned("build_participants_map") =>
    LET m == Unwrap(ret)
    IN  \A c \in DOMAIN m :
          /\ HandlesOf(c) # {}
          /\ LET id == call.participants[FirstIterated(c)]
             IN  /\ m[c].details = id
                 /\ lookup(call.index, id) = None =>
                      /\ m[c].first = <<>>
                      /\ m[c].last = <<>>
                      /\ m[c].full = <<>>
                      /\ GetDisplayName(m[c]) = id

\* one entry was created on a hit and another on a miss
C13_Witness ==
  /\ Returned("build_participants_map")
  /\ \E c, d \in DOMAIN Unwrap(ret) :
       /\ IsSome(lookup(call.index, call.participants[FirstIterated(c)]))
       /\ Unwrap(ret)[c].details = call.participants[FirstIterated(c)]
       /\ lookup(call.index, call.participants[FirstIterated(d)]) = None
       /\ GetDisplayName(Unwrap(ret)[d]) = call.participants[FirstIterated(d)]

(***************************************************************************)
(* contacts.rs: upsert_best                                                *)
(***************************************************************************)
\* the positions in the call history of the calls made for key k
UpsertsFor(k) == {i \in DOMAIN upserts : upserts[i].key = k}

\* the earliest candidate among those of maximum score offered for key k
EarliestBest(k) ==
  upserts[CHOOSE i \in UpsertsFor(k) :
            \A j \in UpsertsFor(k) :
              \/ Score(upserts[j].incoming) < Score(upserts[i].incoming)
              \/ Score(upserts[j].incoming) = Score(upserts[i].incoming) /\ i <= j].incoming

C14_EarliestBest ==
  call.fn = "upsert_best" =>
    /\ DOMAIN index = {upserts[i].key : i \in DOMAIN upserts}
    /\ \A k \in DOMAIN index : index[k] = EarliestBest(k)

C14_ScoreStep ==
  \A k \in DOMAIN index : k \in DOMAIN index' /\ Score(index'[k]) >= Score(index[k])

\* C14: after any sequence of upsert_best calls on an empty map, the Name under
\* each key is the earliest-inserted candidate among those of maximum score for
\* that key, and the stored score of a key never decreases
C14_UpsertBest == []C14_EarliestBest /\ [][C14_ScoreStep]_vars

\* a key was offered a score-1 Name, then a score-2 Name, then a different
\* score-2 Name, and holds the first score-2 Name
C14_Witness ==
  /\ call.fn = "upsert_best"
  /\ \E k \in DOMAIN index :
       \E i, j, l \in UpsertsFor(k) :
         /\ i < j
         /\ j < l
         /\ Score(upserts[i].incoming) = 1
         /\ Score(upserts[j].incoming) = 2
         /\ Score(upserts[l].incoming) = 2
         /\ upserts[l].incoming # upserts[j].incoming
         /\ index[k] = upserts[j].incoming

(***************************************************************************)
(* contacts.rs: lookup                                                     *)
(***************************************************************************)
\* some phone key of the token is a key of the index
PhoneHit(ix, tok) == \E n \in DOMAIN phone_keys(tok) : phone_keys(tok)[n] \in DOMAIN ix

\* C15: when the scan reaches a token containing '@' before any phone token
\* has hit, lookup returns the entry of that token's normalized email, or
\* not-found when there is none, whatever the later tokens are
C15_EmailShortCircuits ==
  Returned("lookup") =>
    \A j \in DOMAIN call.tokens :
      (/\ Contains(call.tokens[j], "@")
       /\ \A i \in 1..(j - 1) :
            ~Contains(call.tokens[i], "@") /\ ~PhoneHit(call.index, call.tokens[i]))
      => Unwrap(ret) = Get(call.index, Unwrap(normalize_email(call.tokens[j])))

\* the first token is an email the index does not hold, a later token is a
\* phone number it holds, and lookup returns not-found
C15_Witness ==
  /\ Returned("lookup")
  /\ Len(call.tokens) = 2
  /\ Contains(call.tokens[1], "@")
  /\ Unwrap(normalize_email(call.tokens[1])) \notin DOMAIN call.index
  /\ PhoneHit(call.index, call.tokens[2])
  /\ Unwrap(ret) = None

\* the phone keys of the tokens, token after token
RECURSIVE AllPhoneKeys(_)
AllPhoneKeys(tokens) ==
  IF tokens = <<>> THEN <<>> ELSE phone_keys(Head(tokens)) \o AllPhoneKeys(Tail(tokens))

\* C16: for an identifier without '@', lookup returns the entry of the first
\* key the index holds, scanning the tokens left to right and each token's
\* phone_keys in order, and not-found when it holds none; a contact registered
\* under every key of phone_keys("+15551234567") is returned for "5551234567",
\* "15551234567" and "+15551234567", and "+19999999999" is not found
C16_FirstPhoneKey ==
  (Returned("lookup") /\ \A i \in DOMAIN call.tokens : ~Contains(call.tokens[i], "@")) =>
    LET keys == AllPhoneKeys(call.tokens)
        present == {n \in DOMAIN keys : keys[n] \in DOMAIN call.index}
        first == CHOOSE n \in present : \A o \in present : n <= o
        contact == BookEntries[1].name
    IN  /\ Unwrap(ret) = IF present = {} THEN None ELSE Some(call.index[keys[first]])
        /\ (\A n \in DOMAIN phone_keys(PhoneUS) :
              Get(call.index, phone_keys(PhoneUS)[n]) = Some(contact))
           => /\ call.id \in {PhoneUSLast10, UsDigits, PhoneUS} => Unwrap(ret) = Some(contact)
              /\ call.id = PhoneUSOther => Unwrap(ret) = None

\* the first token has no key in the index, the second token's first key is
\* not in the index and its second key is: lookup returns that entry
C16_Witness ==
  /\ Returned("lookup")
  /\ Len(call.tokens) = 2
  /\ \A i \in DOMAIN call.tokens : ~Contains(call.tokens[i], "@")
  /\ phone_keys(call.tokens[1]) # <<>>
  /\ ~PhoneHit(call.index, call.tokens[1])
  /\ Len(phone_keys(call.tokens[2])) = 2
  /\ phone_keys(call.tokens[2])[1] \notin DOMAIN call.index
  /\ phone_keys(call.tokens[2])[2] \in DOMAIN call.index
  /\ Unwrap(ret) = Some(call.index[phone_keys(call.tokens[2])[2]])

(***************************************************************************)
(* contacts.rs: phone_keys, normalize_email, parse_email_list              *)
(***************************************************************************)
\* C17: phone_keys(raw) is empty when raw contains "urn:" or has no ASCII digit;
\* otherwise, with d the digits of raw in order, it holds without duplicates
\* exactly d and "+"d, plus the last ten digits of d and "+" before them if and
\* only if d has exactly 11 digits and raw begins with "+1"
C17_PhoneKeys ==
  Returned("phone_keys") =>
    LET raw == call.raw
        keys == Unwrap(ret)
        d == SelectSeq(raw, IsAsciiDigit)
        last10 == SubSeq(d, Len(d) - 9, Len(d))
        urn == \E i \in 1..(Len(raw) - 3) :
                 raw[i] = "u" /\ raw[i + 1] = "r" /\ raw[i + 2] = "n" /\ raw[i + 3] = ":"
        plus1 == Len(raw) >= 2 /\ raw[1] = "+" /\ raw[2] = "1"
    IN  IF urn \/ d = <<>>
        THEN keys = <<>>
        ELSE /\ Range(keys) = {d, <<"+">> \o d}
                                \cup (IF Len(d) = 11 /\ plus1
                                      THEN {last10, <<"+">> \o last10}
                                      ELSE {})
             /\ Cardinality(Range(keys)) = Len(keys)

\* "+15551234567" has four keys, its last ten digits among them
C17_Witness ==
  /\ Returned("phone_keys")
  /\ call.raw = PhoneUS
  /\ Len(Unwrap(ret)) = 4
  /\ PhoneUSLast10 \in Range(Unwrap(ret))

\* s without one leading '<' and one trailing '>'
StripOne(s) ==
  LET u == IF s # <<>> /\ s[1] = "<" THEN Tail(s) ELSE s
  IN  IF u # <<>> /\ u[Len(u)] = ">" THEN SubSeq(u, 1, Len(u) - 1) ELSE u

\* s without every leading '<' and, of what is left, every trailing '>'
StripEvery(s) ==
  LET lead == CHOOSE i \in 0..Len(s) :
                /\ \A j \in 1..i : s[j] = "<"
                /\ i < Len(s) => s[i + 1] # "<"
      u == SubSeq(s, lead + 1, Len(s))
      trail == CHOOSE i \in 0..Len(u) :
                 /\ \A j \in (Len(u) - i + 1)..Len(u) : u[j] = ">"
                 /\ i < Len(u) => u[Len(u) - i] # ">"
  IN  SubSeq(u, 1, Len(u) - trail)

\* trim, strip, None when nothing is left, else lowercase
EmailReference(raw, Strip(_)) ==
  LET t == Strip(Trim(raw))
  IN  IF t = <<>> THEN None ELSE Some(ToLowercase(t))

\* C18, as stated: normalize_email(raw) trims raw, strips one leading '<' and
\* one trailing '>', returns None when the result is empty and the lowercased
\* result otherwise, for every input
C18_StripsOne ==
  Returned("normalize_email") => Unwrap(ret) = EmailReference(call.raw, StripOne)

\* C18, amended: normalize_email(raw) trims raw, strips every leading '<' and
\* every trailing '>', returns None when the result is empty and the lowercased
\* result otherwise, for every input
C18_StripsEvery ==
  Returned("normalize_email") => Unwrap(ret) = EmailReference(call.raw, StripEvery)

\* "<<A@M>>" is normalized to "a@m"
C18_Witness ==
  /\ Returned("normalize_email")
  /\ call.raw = <<"<", "<", "A", "@", "M", ">", ">">>
  /\ Unwrap(ret) = Some(<<"a", "@", "m">>)

\* k is lowercased and neither begins with '<' or whitespace nor ends with '>'
\* or whitespace
CleanKey(k) ==
  /\ ToLowercase(k) = k
  /\ k # <<>> => /\ k[1] \notin {"<"} \cup Whitespace
                 /\ k[Len(k)] \notin {">"} \cup Whitespace

\* C19: every email key produced by normalize_email or parse_email_list is
\* lowercased, has no leading '<', no trailing '>' and no leading or trailing
\* whitespace
C19_EmailKeysNormalized ==
  /\ (Returned("normalize_email") /\ IsSome(Unwrap(ret))) => CleanKey(Unwrap(Unwrap(ret)))
  /\ Returned("parse_email_list") =>
       \A i \in DOMAIN Unwrap(ret) : CleanKey(Unwrap(ret)[i])

(***************************************************************************)
(* contacts.rs: ContactsIndex::build without a path                        *)
(***************************************************************************)
\* the positions of the sources that open and whose query succeeds
GoodSources ==
  {i \in DOMAIN call.sources : call.sources[i].opens /\ call.sources[i].query_ok}

\* the index build_from_macos makes of source i
SubIndex(i) == build_from_macos(call.sources[i].rows)

ParticipantsIn(horder) ==
  build_participants_map(BuildDiscovery(EmptyMap, db.sources), db.handles, db.deduped,
                         horder)

\* C21: a second run over the same store, the same address-book sources and the
\* same selection writes the same chat at every chat_NNN index, with the same
\* messages and the same sender names, whatever order its hash maps are
\* iterated in
C21_SameArchive ==
  pc = "ok" =>
    /\ \A corder \in Perms(DOMAIN messages_by_chat) :
         SortByMessageCountDesc(BuildExportedChats(chats, messages_by_chat, corder))
           = exported_chats
    /\ \A horder \in Perms(DOMAIN db.handles) :
         \A c \in DOMAIN messages_by_chat :
           \A k \in DOMAIN messages_by_chat[c] :
             messages_by_chat[c][k].sender
               = get_sender_name(db.messages[NthKeptRow(c, k)], db.handles, db.deduped,
                                 ParticipantsIn(horder))

(***************************************************************************)
(* export.rs: the streaming loop                                           *)
(***************************************************************************)
\* the row the stream delivers next
NextRow == db.messages[pos + 1]

\* the row is a message whose chat id is in the selection
RowSelected(row) ==
  row.ok /\ row.chat_id # None /\ \E i \in DOMAIN chat_ids : chat_ids[i] = row.chat_id[1]

\* the list of chat c, empty when the chat has none yet
ListOf(by_chat, c) == IF c \in DOMAIN by_chat THEN by_chat[c] ELSE <<>>

C22_DecodeFailureStep ==
  (/\ pc = "stream"
   /\ pos' = pos + 1
   /\ RowSelected(NextRow)
   /\ NextRow.generated = None)
  => /\ pc' = "stream"
     /\ processed' = processed + 1
     /\ IF NextRow.text \in {None, Some(<<>>)}
        THEN messages_by_chat' = messages_by_chat
        ELSE LET c == NextRow.chat_id[1]
                 was == ListOf(messages_by_chat, c)
             IN  /\ c \in DOMAIN messages_by_chat'
                 /\ Len(messages_by_chat'[c]) = Len(was) + 1
                 /\ SubSeq(messages_by_chat'[c], 1, Len(was)) = was
                 /\ messages_by_chat'[c][Len(was) + 1].text = NextRow.text[1]

\* C22: a selected message whose text cannot be decoded does not abort the run:
\* the stream goes on, the message is counted in processed, and it is exported
\* exactly when it carries non-empty text all the same
C22_DecodeFailureTolerated == [][C22_DecodeFailureStep]_vars

\* a run returned Ok after two decode failures: one message was exported with
\* the text it had, the other was dropped, both were counted
C22_Witness ==
  /\ pc = "ok"
  /\ \E i, j \in SelectedRows(pos) :
       /\ db.messages[i].generated = None
       /\ db.messages[i].text \notin {None, Some(<<>>)}
       /\ \E k \in DOMAIN exported_chats :
            \E n \in DOMAIN exported_chats[k].messages :
              exported_chats[k].messages[n].text = db.messages[i].text[1]
       /\ db.messages[j].generated = None
       /\ db.messages[j].text = None
       /\ j \in DroppedRows(pos)
  /\ processed = Cardinality(SelectedRows(pos))

\* C24: the loop emits an Exporting update exactly when processed reaches a
\* positive multiple of 100: with the Exporting(10) emitted before the stream,
\* a run that has processed P messages has emitted 1 + floor(P / 100)
\* Exporting events
C24_EveryHundred ==
  pc \in {"stream", "tempdir", "zipfile", "manifest", "chatfiles", "ok", "panic"} =>
    StageCount("Exporting") = 1 + (processed \div 100)

C25_UnselectedStep ==
  (/\ pc = "stream"
   /\ pos' = pos + 1
   /\ NextRow.ok
   /\ ~RowSelected(NextRow))
  => UNCHANGED <<pc, processed, messages_by_chat, events>>

C25_CountedOnce ==
  pc \in {"stream", "tempdir", "zipfile", "manifest", "chatfiles", "ok"} =>
    /\ processed <= pos
    /\ \A c \in DOMAIN messages_by_chat :
         Len(messages_by_chat[c]) <= Cardinality(ChatRows(db.messages, c))

\* C25: a streamed message without a chat id, or whose chat id is not selected,
\* changes nothing: processed, the chats' lists and the events stay as they
\* are; a chat id given twice in the selection does not make a message count
\* or appear twice
C25_UnselectedIgnored == []C25_CountedOnce /\ [][C25_UnselectedStep]_vars

\* the selection names chat 1 twice; the store holds a message without chat id,
\* one of an unselected chat and one of chat 1, which alone was counted
C25_Witness ==
  /\ pc = "ok"
  /\ \E i, j \in DOMAIN chat_ids : i # j /\ chat_ids[i] = 1 /\ chat_ids[j] = 1
  /\ \E i \in DOMAIN db.messages : db.messages[i].ok /\ db.messages[i].chat_id = None
  /\ \E i \in DOMAIN db.messages :
       /\ db.messages[i].ok
       /\ db.messages[i].chat_id # None
       /\ db.messages[i].chat_id[1] \notin Range(chat_ids)
  /\ processed = 1
  /\ 1 \in DOMAIN messages_by_chat
  /\ Len(messages_by_chat[1]) = 1

\* the selected rows of chat c that carry text, in the order of the stream
KeptRowSeq(c) ==
  LET Kept(row) == /\ RowSelected(row)
                   /\ row.chat_id = Some(c)
                   /\ TextAfter(row) \notin {None, Some(<<>>)}
  IN  SelectSeq(db.messages, Kept)

\* C26: the messages of an exported chat are the selected rows of that chat
\* that carry text, each once, in the order the stream delivered them, in the
\* exported chat and in its chat file
C26_StreamOrderKept ==
  pc \in {"zipfile", "manifest", "chatfiles", "ok"} =>
    \A k \in DOMAIN exported_chats :
      LET rows == KeptRowSeq(exported_chats[k].chat_id)
          msgs == exported_chats[k].messages
      IN  /\ Len(msgs) = Len(rows)
          /\ \A n \in DOMAIN msgs :
               /\ msgs[n].text = TextAfter(rows[n])[1]
               /\ msgs[n].is_from_me = rows[n].is_from_me
          /\ pc = "ok" => zip[k + 1].body.messages = msgs

\* two chats were exported, one of them with two messages of different texts
C26_Witness ==
  /\ pc = "ok"
  /\ Len(exported_chats) = 2
  /\ Len(exported_chats[1].messages) = 2
  /\ exported_chats[1].messages[1].text # exported_chats[1].messages[2].text

(***************************************************************************)
(* contacts.rs: Name                                                       *)
(***************************************************************************)
\* C23: a contact row gets a Name, registered under its phone and email keys,
\* if and only if first or last is present; full is first, a single space
\* exactly when both are present, then last; score counts the non-empty fields
\* among first and last; the display value is full when non-empty, else details
C23_NameOfRow ==
  Returned("build_from_macos") =>
    LET row == call.rows[1]
        ix == Unwrap(ret)
        f == IF row.first # None THEN row.first[1] ELSE <<>>
        l == IF row.last # None THEN row.last[1] ELSE <<>>
        keys == (IF row.phone # None THEN Range(phone_keys(row.phone[1])) ELSE {})
                  \cup (IF row.email # None THEN Range(parse_email_list(row.email[1]))
                        ELSE {})
    IN  IF row.first = None /\ row.last = None
        THEN ix = EmptyMap
        ELSE /\ DOMAIN ix = keys
             /\ \A k \in keys :
                  /\ ix[k].first = f
                  /\ ix[k].last = l
                  /\ ix[k].full = f \o (IF row.first # None /\ row.last # None
                                        THEN <<" ">> ELSE <<>>) \o l
                  /\ Score(ix[k]) = Cardinality({x \in {1, 2} : <<f, l>>[x] # <<>>})
                  /\ GetDisplayName(ix[k])
                       = IF ix[k].full # <<>> THEN ix[k].full ELSE ix[k].details

\* a row with a first name only is registered under its phone keys with
\* full = first and score 1
C23_Witness ==
  /\ Returned("build_from_macos")
  /\ call.rows[1].first = Some(<<"A">>)
  /\ call.rows[1].last = None
  /\ PhoneNZ \in DOMAIN Unwrap(ret)
  /\ Unwrap(ret)[PhoneNZ].full = <<"A">>
  /\ Score(Unwrap(ret)[PhoneNZ]) = 1

(***************************************************************************)
(* export.rs and lib.rs: the name of an exported chat                      *)
(***************************************************************************)
\* C30: the name in the meta of every exported chat is the display name the
\* listing computes for that chat with resolve_chat_display_name, and is never
\* the empty string
C30_MetaNameIsListingName ==
  pc \in {"zipfile", "manifest", "chatfiles", "ok"} =>
    \A k \in DOMAIN exported_chats :
      LET c == exported_chats[k].chat_id
      IN  /\ exported_chats[k].meta.name # <<>>
          /\ c \in DOMAIN db.chats =>
               exported_chats[k].meta.name
                 = resolve_chat_display_name(db.chats[c], Get(db.chat_handles, c),
                                             participants_map, db.deduped)

\* the percent 55 + floor(p * 35 / 100) of an upload percent p
UploadScaled(p) == UploadBase + ((p * UploadSpan) \div 100)

\* C27: the k-th progress report of upload_file, made with percent p, reaches the
\* window (after the three events Exporting(0), Uploading(50), Uploading(55) the
\* command emits itself) as an Uploading event of percent 55 + floor(p * 35 / 100):
\* no 8-bit overflow loses the report or changes its percent.
C27_UploadScaled ==
  /\ \A k \in DOMAIN UploadPercents :
       Len(window) >= 3 + k =>
         window[3 + k] =
           [stage |-> "Uploading", percent |-> UploadScaled(UploadPercents[k])]
  /\ up_pc # "panic"

IsComplete(e) == e.stage = "Complete"
NonDecreasing(w) == \A i, j \in DOMAIN w : i < j => w[i].percent <= w[j].percent

\* C29: when the command has returned Ok, the window got a Complete event exactly
\* once, as its last event and so after the Processing event that precedes the
\* completion call, and the percents of the events it got never go down.
C29_CompleteOnceLast ==
  up_pc = "ok" =>
    /\ Len(SelectSeq(WindowEvents, IsComplete)) = 1
    /\ IsComplete(WindowEvents[Len(WindowEvents)])
    /\ \A i, j \in DOMAIN WindowEvents :
         IsComplete(WindowEvents[i]) /\ WindowEvents[j].stage = "Processing" => j < i
    /\ NonDecreasing(WindowEvents)

StepOrder == <<"export", "presign", "upload", "complete">>
Failed == up_pc = "err"

\* C28: export, presigned URL, upload and completion are started in this order, each
\* only once the one before returned Ok; a step that fails ends the command with Err
\* and no later step is started; the completion call is given the job id of the
\* presign response, and the command returns Ok only after all four succeeded.
C28_StepsInOrder ==
  /\ Len(started) <= Len(StepOrder)
  /\ \A i \in DOMAIN started : started[i].step = StepOrder[i]
  /\ \A i \in DOMAIN succeeded : i \in DOMAIN started /\ succeeded[i] = started[i].step
  /\ Len(started) <= Len(succeeded) + 1
  /\ Failed => /\ upload_result # None /\ ~Unwrap(upload_result).ok
               /\ Len(started) = Len(succeeded) + 1
  /\ \A i \in DOMAIN started :
       started[i].step = "complete" =>
         /\ presign_response # None
         /\ started[i].job_id = Some(Unwrap(presign_response).job_id)
  /\ (upload_result # None /\ Unwrap(upload_result).ok) => Len(succeeded) = Len(StepOrder)

\* a run that returned Ok, the server answering the completion with another job id
\* than the one it presigned
C28_Witness ==
  /\ up_pc = "ok"
  /\ Len(succeeded) = Len(StepOrder)
  /\ started[4].job_id = Some(Unwrap(presign_response).job_id)
  /\ Unwrap(upload_result).job_id # started[4].job_id

\* a run that failed at the PUT, after the presigned URL was handed out
C28_FailureWitness ==
  /\ Failed
  /\ Len(started) = 3
  /\ Unwrap(upload_result).error[1] = "Upload failed: "

====
